---------------------------- MODULE Spec2Model ----------------------------
(***************************************************************************)
(* litecc: the toy C compiler (Toycc.py: Lexer, Parser, CodeGen) and the   *)
(* MIPS simulator (mips_sim.py: MIPSInterpreter).                          *)
(*                                                                         *)
(* Python integers are unbounded and the simulator masks register values   *)
(* to 32 bits.  TLC's integers are 32-bit, so a Python integer v is        *)
(* written here as the pair <<h, l>> with v = h * 2^16 + l and             *)
(* 0 <= l < 2^16 ("Big").  A register word is a Big with 0 <= h < 2^16.    *)
(* Text (source text, numerals, data-section lines) is a sequence of       *)
(* one-character strings; names (registers, labels, opcodes) are strings.  *)
(***************************************************************************)
EXTENDS Integers, Sequences, FiniteSets, TLC

VARIABLES
    code_,          \* Lexer.code (<<>> when the tokens, the tree or the assembly is given)
    lexer_pos,      \* Lexer.pos
    tokens,         \* Lexer.tokens, then Parser.tokens (<<>> when the tree or the assembly is given)
    pos_,           \* Parser.pos
    ast,            \* the tree handed to CodeGen.generate (<<>> when the assembly is given)
    phase,          \* where the pipeline stands: "lex", "parse", "gen", "asm", "loaded", "run", "done", "fatal"
    error,          \* message of the exception that ended the pipeline ("" if none)
    todo,           \* CodeGen.generate: the functions of the tree not generated yet
    work,           \* CodeGen: the pending part of the gen_function / gen_stmt calls
    output,         \* CodeGen.output
    data,           \* CodeGen.data
    label_count,    \* CodeGen.label_count
    string_count,   \* CodeGen.string_count
    vars_,          \* CodeGen.vars
    stack_offset,   \* CodeGen.stack_offset
    asm,            \* the assembly text handed to the simulator (a sequence of lines)
    regs,           \* MIPSInterpreter.regs
    memory,         \* MIPSInterpreter.memory
    data_strings,   \* MIPSInterpreter.data_strings
    labels,         \* MIPSInterpreter.labels
    pc,             \* MIPSInterpreter.pc
    instructions,   \* MIPSInterpreter.instructions
    running,        \* MIPSInterpreter.running
    lohi,           \* MIPSInterpreter.lo / .hi (absent until the first div)
    iterations,     \* run: the local counter of executed instructions
    out,            \* the console: what print() has written so far
    hist            \* history (not program state): what the run has executed

cgvars == <<todo, work, output, data, label_count, string_count, vars_, stack_offset>>
simvars == <<regs, memory, data_strings, labels, pc, instructions, running, lohi,
             iterations, out, hist>>
vars == <<code_, lexer_pos, code_, lexer_pos, tokens, pos_, ast, phase, error, asm, cgvars, simvars>>

-----------------------------------------------------------------------------
(* Python integers as pairs <<h, l>>.                                      *)

Half == 2^16

Norm(h, l) == <<h + (l \div Half), l % Half>>

Big(n) == Norm(0, n)

BigAdd(a, b) == Norm(a[1] + b[1], a[2] + b[2])

BigSub(a, b) == Norm(a[1] - b[1], a[2] - b[2])

BigLt(a, b) == a[1] < b[1] \/ (a[1] = b[1] /\ a[2] < b[2])

Zero == <<0, 0>>

\* value & 0xFFFFFFFF
Mask32(a) == <<a[1] % Half, a[2]>>

\* if val & 0x80000000: val = val - 0x100000000
Signed(a) == IF a[1] >= 2^15 THEN <<a[1] - Half, a[2]>> ELSE a

\* x * y for 0 <= x, y < 2^16, as a Big
MulLimb(x, y) ==
    LET p == x * (y \div 256)
    IN  Norm(p \div 256, x * (y % 256) + (p % 256) * 256)

\* (a * b) & 0xFFFFFFFF for words a, b
MulMask(a, b) ==
    LET ll == MulLimb(a[2], b[2])
        c1 == MulLimb(a[1], b[2])
        c2 == MulLimb(a[2], b[1])
    IN  Mask32(<<ll[1] + c1[2] + c2[2], ll[2]>>)

\* a * k for a small k >= 0
BigScale(a, k) == Norm(a[1] * k, a[2] * k)

\* hexadecimal digit i (0 = least significant) of the word a
NibbleOf(a, i) == IF i >= 4 THEN (a[1] \div 16^(i - 4)) % 16 ELSE (a[2] \div 16^i) % 16

\* <<a // b, a % b>> for words a, b with b # 0: long division, one
\* hexadecimal digit of a at a time
RECURSIVE DivModFrom(_, _, _, _, _)
DivModFrom(a, b, i, q, r) ==
    IF i < 0 THEN <<q, r>>
    ELSE LET r2 == BigAdd(BigScale(r, 16), <<0, NibbleOf(a, i)>>)
             d  == CHOOSE k \in 0..15 :
                       /\ ~BigLt(r2, BigScale(b, k))
                       /\ BigLt(r2, BigScale(b, k + 1))
             q2 == BigAdd(BigScale(q, 16), <<0, d>>)
             r3 == BigSub(r2, BigScale(b, d))
         IN  DivModFrom(a, b, i - 1, q2, r3)

DivMod(a, b) == DivModFrom(a, b, 7, Zero, Zero)

RECURSIVE AndInt(_, _)
AndInt(x, y) ==
    IF x = 0 \/ y = 0 THEN 0
    ELSE (x % 2) * (y % 2) + 2 * AndInt(x \div 2, y \div 2)

RECURSIVE OrInt(_, _)
OrInt(x, y) ==
    IF x = 0 THEN y ELSE IF y = 0 THEN x
    ELSE (IF x % 2 = 1 \/ y % 2 = 1 THEN 1 ELSE 0) + 2 * OrInt(x \div 2, y \div 2)

RECURSIVE XorInt(_, _)
XorInt(x, y) ==
    IF x = 0 THEN y ELSE IF y = 0 THEN x
    ELSE ((x + y) % 2) + 2 * XorInt(x \div 2, y \div 2)

\* (a & b), (a | b), (a ^ b) under the 32-bit mask set_reg applies
BigAnd(a, b) == LET x == Mask32(a) y == Mask32(b) IN <<AndInt(x[1], y[1]), AndInt(x[2], y[2])>>
BigOr(a, b)  == LET x == Mask32(a) y == Mask32(b) IN <<OrInt(x[1], y[1]), OrInt(x[2], y[2])>>
BigXor(a, b) == LET x == Mask32(a) y == Mask32(b) IN <<XorInt(x[1], y[1]), XorInt(x[2], y[2])>>

-----------------------------------------------------------------------------
(* Decimal text: int(text) and str(n).                                     *)

Digits == <<"0", "1", "2", "3", "4", "5", "6", "7", "8", "9">>

IsDigit(c) == \E d \in 1..10 : Digits[d] = c

DigitVal(c) == (CHOOSE d \in 1..10 : Digits[d] = c) - 1

\* int(text) for a numeral of digits
RECURSIVE ParseNat(_, _)
ParseNat(text, acc) ==
    IF text = <<>> THEN acc
    ELSE ParseNat(Tail(text), Norm(acc[1] * 10, acc[2] * 10 + DigitVal(Head(text))))

\* int(text): an optional minus sign, then digits
ParseInt(text) ==
    IF text # <<>> /\ Head(text) = "-"
    THEN BigSub(Zero, ParseNat(Tail(text), Zero))
    ELSE ParseNat(text, Zero)

\* str(n) for n >= 0
RECURSIVE StrNat(_)
StrNat(n) ==
    LET qh  == n[1] \div 10
        mid == (n[1] % 10) * Half + n[2]
        q   == <<qh, mid \div 10>>
        d   == <<Digits[(mid % 10) + 1]>>
    IN  IF q = Zero THEN d ELSE StrNat(q) \o d

\* str(n), as f"{n}" and print(n) render it
Str(n) == IF n[1] < 0 THEN <<"-">> \o StrNat(BigSub(Zero, n)) ELSE StrNat(n)

\* the string made of the characters of text
RECURSIVE Join(_)
Join(text) == IF text = <<>> THEN "" ELSE Head(text) \o Join(Tail(text))

-----------------------------------------------------------------------------
(* Characters.                                                             *)

\* ord() of the characters the model's texts are made of
CharCodes == <<
    <<"\n", 10>>, <<" ", 32>>, <<"!", 33>>, <<"#", 35>>, <<"a", 97>>,
    <<"b", 98>>, <<"h", 104>>, <<"i", 105>>, <<"x", 120>> >>

Ord(c) == (CHOOSE p \in {CharCodes[k] : k \in DOMAIN CharCodes} : p[1] = c)[2]

\* chr(); a code outside the table prints as "?"
Chr(n) ==
    IF \E k \in DOMAIN CharCodes : CharCodes[k][2] = n
    THEN CharCodes[CHOOSE k \in DOMAIN CharCodes : CharCodes[k][2] = n][1]
    ELSE "?"

-----------------------------------------------------------------------------
(* MIPSInterpreter: registers and memory.                                  *)

reg_names == <<
    "$zero", "$at", "$v0", "$v1", "$a0", "$a1", "$a2", "$a3",
    "$t0", "$t1", "$t2", "$t3", "$t4", "$t5", "$t6", "$t7",
    "$s0", "$s1", "$s2", "$s3", "$s4", "$s5", "$s6", "$s7",
    "$t8", "$t9", "$k0", "$k1", "$gp", "$sp", "$fp", "$ra" >>

KnownReg(name) == \E i \in DOMAIN reg_names : reg_names[i] = name

\* reg_names[name]: the index 0..31 of a known register
RegIdx(name) == (CHOOSE i \in DOMAIN reg_names : reg_names[i] = name) - 1

\* get_reg for a known name (an unknown name raises: see Exec)
GetReg(rs, name) ==
    IF RegIdx(name) = 0 THEN Zero ELSE rs[RegIdx(name) + 1]

\* set_reg, mutated: the write to index 0 is not discarded
SetRegNoZeroCheck(rs, name, value) ==
    IF KnownReg(name)
    THEN [rs EXCEPT ![RegIdx(name) + 1] = Mask32(value)]
    ELSE rs

\* set_reg: an unknown name is ignored, and so is index 0
SetReg(rs, name, value) ==
    IF KnownReg(name)
    THEN IF RegIdx(name) # 0
         THEN [rs EXCEPT ![RegIdx(name) + 1] = Mask32(value)]
         ELSE rs
    ELSE rs

\* self.memory.get(addr, 0)
MemGet(mem, addr) == IF addr \in DOMAIN mem THEN mem[addr] ELSE 0

\* self.memory[addr] = byte
MemPut(mem, addr, byte) == [a \in DOMAIN mem \cup {addr} |-> IF a = addr THEN byte ELSE mem[a]]

\* read_mem: four bytes, little-endian (every stored byte is below 256)
ReadMem(mem, addr) ==
    LET b(i) == MemGet(mem, BigAdd(addr, <<0, i>>))
    IN  Norm(OrInt(b(2), b(3) * 256), OrInt(b(0), b(1) * 256))

\* write_mem, mutated: the bytes are stored most significant first
WriteMemBigEndian(mem, addr, word) ==
    LET m0 == MemPut(mem, addr, word[1] \div 256)
        m1 == MemPut(m0, BigAdd(addr, <<0, 1>>), word[1] % 256)
        m2 == MemPut(m1, BigAdd(addr, <<0, 2>>), word[2] \div 256)
    IN  MemPut(m2, BigAdd(addr, <<0, 3>>), word[2] % 256)

\* write_mem: (word >> (i * 8)) & 0xFF at addr + i
WriteMem(mem, addr, word) ==
    LET m0 == MemPut(mem, addr, word[2] % 256)
        m1 == MemPut(m0, BigAdd(addr, <<0, 1>>), word[2] \div 256)
        m2 == MemPut(m1, BigAdd(addr, <<0, 2>>), word[1] % 256)
    IN  MemPut(m2, BigAdd(addr, <<0, 3>>), word[1] \div 256)

\* the la loop: memory[addr + i] = ord(char), then the terminating 0
RECURSIVE StoreString(_, _, _)
StoreString(mem, addr, string) ==
    IF string = <<>> THEN MemPut(mem, addr, 0)
    ELSE StoreString(MemPut(mem, addr, Ord(Head(string))),
                     BigAdd(addr, <<0, 1>>), Tail(string))

\* the print_str loop: the characters from addr up to the first zero byte
RECURSIVE LoadString(_, _)
LoadString(mem, addr) ==
    IF MemGet(mem, addr) = 0 THEN <<>>
    ELSE <<Chr(MemGet(mem, addr))>> \o LoadString(mem, BigAdd(addr, <<0, 1>>))

\* 0x10000000: where la puts a string (plus the length of its label)
StringBase == <<4096, 0>>

\* 0x7ffffffc: the initial $sp
InitialSp == <<32767, 65532>>

max_iter == 100000

-----------------------------------------------------------------------------
(* MIPSInterpreter.execute.  An instruction is the sequence               *)
(* <<op, operand, ...>> that inst.split() and split(',') make of its text: *)
(* a register or a label is a string, an immediate is its numeral (text),  *)
(* and offset(reg) is the pair <<numeral, reg>>.  The simulator state is   *)
(* the record s; s.err is the message of the exception execute raised.     *)

Raise(s, msg) == [s EXCEPT !.err = msg]

\* the final self.pc += 1
Advance(s) == [s EXCEPT !.pc = @ + 1]

UnknownRegister(name) == "Unknown register: " \o name

\* slt, mutated: the values are compared as they are, unsigned
SltValueUnsigned(val1, val2) == IF BigLt(val1, val2) THEN <<0, 1>> ELSE Zero

\* 1 if val1 < val2 else 0, both read as signed (lines 220-224)
SltValue(val1, val2) == IF BigLt(Signed(val1), Signed(val2)) THEN <<0, 1>> ELSE Zero

\* 1 if val1 < val2 else 0, both as they are
SltuValue(val1, val2) == IF BigLt(val1, val2) THEN <<0, 1>> ELSE Zero

\* the value an instruction computes of its two operand values
Alu(op, x, y) ==
    CASE op \in {"add", "addi"} -> BigAdd(x, y)
      [] op = "sub"  -> BigSub(x, y)
      [] op = "mul"  -> MulMask(x, y)
      [] op = "slt"  -> SltValue(x, y)
      [] op = "sltu" -> SltuValue(x, y)
      [] op \in {"and", "andi"} -> BigAnd(x, y)
      [] op = "or"   -> BigOr(x, y)
      [] op = "xori" -> BigXor(x, y)

\* rd = rs op rt: add, sub, mul, slt, sltu, and, or
ExecRegReg(s, op, ops) ==
    IF ~KnownReg(ops[2]) THEN Raise(s, UnknownRegister(ops[2]))
    ELSE IF ~KnownReg(ops[3]) THEN Raise(s, UnknownRegister(ops[3]))
    ELSE Advance([s EXCEPT !.regs =
             SetReg(s.regs, ops[1], Alu(op, GetReg(s.regs, ops[2]), GetReg(s.regs, ops[3])))])

\* rd = rs op imm: addi, andi, xori
ExecRegImm(s, op, ops) ==
    IF ~KnownReg(ops[2]) THEN Raise(s, UnknownRegister(ops[2]))
    ELSE Advance([s EXCEPT !.regs =
             SetReg(s.regs, ops[1], Alu(op, GetReg(s.regs, ops[2]), ParseInt(ops[3])))])

\* div, mutated: the dividend is tested for zero instead of the divisor
ExecDivTestsDividend(s, ops) ==
    IF ~KnownReg(ops[1]) THEN Raise(s, UnknownRegister(ops[1]))
    ELSE IF ~KnownReg(ops[2]) THEN Raise(s, UnknownRegister(ops[2]))
    ELSE IF GetReg(s.regs, ops[1]) = Zero THEN Raise(s, "Division by zero")
    ELSE IF GetReg(s.regs, ops[2]) = Zero THEN Advance(s)
    ELSE Advance([s EXCEPT !.lohi = DivMod(GetReg(s.regs, ops[1]), GetReg(s.regs, ops[2]))])

\* div: lo = val1 // val2, hi = val1 % val2 on the register values as read
ExecDiv(s, ops) ==
    IF ~KnownReg(ops[1]) THEN Raise(s, UnknownRegister(ops[1]))
    ELSE IF ~KnownReg(ops[2]) THEN Raise(s, UnknownRegister(ops[2]))
    ELSE IF GetReg(s.regs, ops[2]) = Zero THEN Raise(s, "Division by zero")
    ELSE Advance([s EXCEPT !.lohi = DivMod(GetReg(s.regs, ops[1]), GetReg(s.regs, ops[2]))])

\* la: a data-section label is materialized at 0x10000000 + len(label)
ExecLa(s, ops, strings) ==
    IF ops[2] \in DOMAIN strings
    THEN LET addr == BigAdd(StringBase, <<0, Len(ops[2])>>)
         IN  Advance([s EXCEPT !.regs = SetReg(s.regs, ops[1], addr),
                               !.memory = StoreString(s.memory, addr, strings[ops[2]])])
    ELSE Raise(s, "Unknown label: " \o ops[2])

\* lw rt, offset(reg)
ExecLw(s, ops) ==
    IF ops[2][1] = <<>> THEN Raise(s, "Invalid offset(reg)")
    ELSE IF ~KnownReg(ops[2][2]) THEN Raise(s, UnknownRegister(ops[2][2]))
    ELSE LET addr == BigAdd(GetReg(s.regs, ops[2][2]), ParseInt(ops[2][1]))
         IN  Advance([s EXCEPT !.regs = SetReg(s.regs, ops[1], ReadMem(s.memory, addr))])

\* sw rt, offset(reg)
ExecSw(s, ops) ==
    IF ops[2][1] = <<>> THEN Raise(s, "Invalid offset(reg)")
    ELSE IF ~KnownReg(ops[2][2]) THEN Raise(s, UnknownRegister(ops[2][2]))
    ELSE IF ~KnownReg(ops[1]) THEN Raise(s, UnknownRegister(ops[1]))
    ELSE LET addr == BigAdd(GetReg(s.regs, ops[2][2]), ParseInt(ops[2][1]))
         IN  Advance([s EXCEPT !.memory = WriteMem(s.memory, addr, GetReg(s.regs, ops[1]))])

\* beq (taken on equal) and bne (taken on unequal)
ExecBranch(s, ops, lbls, onEqual) ==
    IF ~KnownReg(ops[1]) THEN Raise(s, UnknownRegister(ops[1]))
    ELSE IF ~KnownReg(ops[2]) THEN Raise(s, UnknownRegister(ops[2]))
    ELSE IF (GetReg(s.regs, ops[1]) = GetReg(s.regs, ops[2])) = onEqual
         THEN IF ops[3] \in DOMAIN lbls
              THEN [s EXCEPT !.pc = lbls[ops[3]]]
              ELSE Raise(s, "KeyError: " \o ops[3])
         ELSE Advance(s)

\* jal, mutated: the print routines are linked as calls are
ExecJalLinksBuiltin(s, ops, lbls) ==
    LET linked == [s EXCEPT !.regs = SetReg(s.regs, "$ra", Big(s.pc + 1))]
    IN  IF ops[1] = "print_int"
        THEN Advance([linked EXCEPT !.out = @ \o Str(Signed(GetReg(s.regs, "$a0")))])
        ELSE IF ops[1] = "print_str"
        THEN Advance([linked EXCEPT !.out = @ \o LoadString(s.memory, GetReg(s.regs, "$a0"))])
        ELSE IF ops[1] \in DOMAIN lbls
             THEN [linked EXCEPT !.pc = lbls[ops[1]]]
             ELSE Advance(linked)

\* jal, mutated: the print routines end their output with a newline
ExecJalPrintsLine(s, ops, lbls) ==
    IF ops[1] = "print_int"
    THEN Advance([s EXCEPT !.out = @ \o Str(Signed(GetReg(s.regs, "$a0"))) \o <<"\n">>])
    ELSE IF ops[1] = "print_str"
    THEN Advance([s EXCEPT !.out = @ \o LoadString(s.memory, GetReg(s.regs, "$a0")) \o <<"\n">>])
    ELSE LET linked == [s EXCEPT !.regs = SetReg(s.regs, "$ra", Big(s.pc + 1))]
         IN  IF ops[1] \in DOMAIN lbls
             THEN [linked EXCEPT !.pc = lbls[ops[1]]]
             ELSE Advance(linked)

\* jal: print_int and print_str print (end=''), any other name is a call
ExecJal(s, ops, lbls) ==
    IF ops[1] = "print_int"
    THEN Advance([s EXCEPT !.out = @ \o Str(Signed(GetReg(s.regs, "$a0")))])
    ELSE IF ops[1] = "print_str"
    THEN Advance([s EXCEPT !.out = @ \o LoadString(s.memory, GetReg(s.regs, "$a0"))])
    ELSE LET linked == [s EXCEPT !.regs = SetReg(s.regs, "$ra", Big(s.pc + 1))]
         IN  IF ops[1] \in DOMAIN lbls
             THEN [linked EXCEPT !.pc = lbls[ops[1]]]
             ELSE Advance(linked)

\* jr, mutated: the jump falls through to the final self.pc += 1
ExecJrFallsThrough(s, ops) ==
    IF ops[1] = "$ra"
    THEN LET target == GetReg(s.regs, "$ra")
         IN  IF target = Zero
             THEN [s EXCEPT !.running = FALSE]
             ELSE [s EXCEPT !.pc = target[1] * Half + target[2] + 1]
    ELSE Advance(s)

\* jr: only `jr $ra` is acted on; a zero $ra stops the run
ExecJr(s, ops) ==
    IF ops[1] = "$ra"
    THEN LET target == GetReg(s.regs, "$ra")
         IN  IF target = Zero
             THEN [s EXCEPT !.running = FALSE]
             ELSE [s EXCEPT !.pc = target[1] * Half + target[2]]
    ELSE Advance(s)

\* an opcode of no branch, mutated: it raises
ExecUnknownRaises(s, op) == Raise(s, "Unknown instruction: " \o op)

\* an opcode of no branch of the if/elif chain: only the final self.pc += 1
ExecUnknown(s, op) == Advance(s)

\* execute(inst): the dispatch on the opcode
Exec(s, inst, strings, lbls) ==
    LET op  == inst[1]
        ops == Tail(inst)
    IN  CASE op = "li"   -> Advance([s EXCEPT !.regs = SetReg(s.regs, ops[1], ParseInt(ops[2]))])
          [] op = "la"   -> ExecLa(s, ops, strings)
          [] op = "move" ->
                IF ~KnownReg(ops[2]) THEN Raise(s, UnknownRegister(ops[2]))
                ELSE Advance([s EXCEPT !.regs = SetReg(s.regs, ops[1], GetReg(s.regs, ops[2]))])
          [] op = "add"  -> ExecRegReg(s, op, ops)
          [] op = "addi" -> ExecRegImm(s, op, ops)
          [] op = "sub"  -> ExecRegReg(s, op, ops)
          [] op = "mul"  -> ExecRegReg(s, op, ops)
          [] op = "div"  -> ExecDiv(s, ops)
          [] op = "mflo" ->
                Advance([s EXCEPT !.regs = SetReg(s.regs, ops[1],
                                                 IF s.lohi = <<>> THEN Zero ELSE s.lohi[1])])
          [] op = "mfhi" ->
                Advance([s EXCEPT !.regs = SetReg(s.regs, ops[1],
                                                 IF s.lohi = <<>> THEN Zero ELSE s.lohi[2])])
          [] op = "slt"  -> ExecRegReg(s, op, ops)
          [] op = "sltu" -> ExecRegReg(s, op, ops)
          [] op = "and"  -> ExecRegReg(s, op, ops)
          [] op = "andi" -> ExecRegImm(s, op, ops)
          [] op = "or"   -> ExecRegReg(s, op, ops)
          [] op = "xori" -> ExecRegImm(s, op, ops)
          [] op = "lw"   -> ExecLw(s, ops)
          [] op = "sw"   -> ExecSw(s, ops)
          [] op = "beq"  -> ExecBranch(s, ops, lbls, TRUE)
          [] op = "bne"  -> ExecBranch(s, ops, lbls, FALSE)
          [] op = "j"    ->
                IF ops[1] \in DOMAIN lbls THEN [s EXCEPT !.pc = lbls[ops[1]]]
                ELSE Raise(s, "KeyError: " \o ops[1])
          [] op = "jal"  -> ExecJal(s, ops, lbls)
          [] op = "jr"   -> ExecJr(s, ops)
          [] op = "nop"  -> Advance(s)
          [] OTHER       -> ExecUnknown(s, op)

-----------------------------------------------------------------------------
(* Text helpers: character classes, strip, split, replace.                 *)

Lower == {"a", "b", "c", "d", "e", "f", "g", "h", "i", "j", "k", "l", "m",
          "n", "o", "p", "q", "r", "s", "t", "u", "v", "w", "x", "y", "z"}

Upper == {"A", "B", "C", "D", "E", "F", "G", "H", "I", "J", "K", "L", "M",
          "N", "O", "P", "Q", "R", "S", "T", "U", "V", "W", "X", "Y", "Z"}

\* str.isspace()
IsSpace(c) == c \in {" ", "\t", "\n", "\r"}

\* the regular expression class \w
IsWord(c) == c \in Lower \/ c \in Upper \/ IsDigit(c) \/ c = "_"

RECURSIVE LStrip(_)
LStrip(text) ==
    IF text # <<>> /\ IsSpace(Head(text)) THEN LStrip(Tail(text)) ELSE text

\* str.rstrip()
RECURSIVE RStrip(_)
RStrip(text) ==
    IF text # <<>> /\ IsSpace(text[Len(text)])
    THEN RStrip(SubSeq(text, 1, Len(text) - 1))
    ELSE text

\* str.strip()
Strip(text) == LStrip(RStrip(text))

\* text.split('\n'): the lines of text, from position i on, cur being the
\* line collected so far
RECURSIVE SplitFrom(_, _, _)
SplitFrom(text, i, cur) ==
    IF i > Len(text) THEN <<cur>>
    ELSE IF text[i] = "\n" THEN <<cur>> \o SplitFrom(text, i + 1, <<>>)
    ELSE SplitFrom(text, i + 1, Append(cur, text[i]))

SplitNewline(text) == SplitFrom(text, 1, <<>>)

\* text.replace('\\n', '\n').replace('\\t', '\t')
RECURSIVE Unescape(_)
Unescape(text) ==
    IF Len(text) < 2 THEN text
    ELSE IF text[1] = "\\" /\ text[2] = "n" THEN <<"\n">> \o Unescape(SubSeq(text, 3, Len(text)))
    ELSE IF text[1] = "\\" /\ text[2] = "t" THEN <<"\t">> \o Unescape(SubSeq(text, 3, Len(text)))
    ELSE <<Head(text)>> \o Unescape(Tail(text))

\* the number of characters matched by \w* from position i of text
RECURSIVE SpanWord(_, _)
SpanWord(text, i) ==
    IF i <= Len(text) /\ IsWord(text[i]) THEN 1 + SpanWord(text, i + 1) ELSE 0

\* the number of characters matched by \s* from position i of text
RECURSIVE SpanSpace(_, _)
SpanSpace(text, i) ==
    IF i <= Len(text) /\ IsSpace(text[i]) THEN 1 + SpanSpace(text, i + 1) ELSE 0

AsciizWord == <<".", "a", "s", "c", "i", "i", "z">>

\* re.match(r'(\w+):\s*\.asciiz\s*"(.*)', line): <<matched, label, rest>>
MatchAsciiz(line) ==
    LET n  == SpanWord(line, 1)
        c  == n + 1                               \* where the colon must be
        d  == c + 1 + SpanSpace(line, c + 1)  \* where .asciiz must start
        q  == d + 7 + SpanSpace(line, d + 7)  \* where the quote must be
    IN  IF /\ n >= 1
           /\ c <= Len(line) /\ line[c] = ":"
           /\ d + 6 <= Len(line) /\ SubSeq(line, d, d + 6) = AsciizWord
           /\ q <= Len(line) /\ line[q] = "\""
        THEN <<TRUE, Join(SubSeq(line, 1, n)), SubSeq(line, q + 1, Len(line))>>
        ELSE <<FALSE, "", <<>>>>

EndsWithQuote(text) == text # <<>> /\ text[Len(text)] = "\""

\* text[:-1]
DropLast(text) == SubSeq(text, 1, Len(text) - 1)

\* self.data_strings[label] = string
PutString(strings, label, string) ==
    [l \in DOMAIN strings \cup {label} |-> IF l = label THEN string ELSE strings[l]]

-----------------------------------------------------------------------------
(* MIPSInterpreter.load_program.  The assembly text is a sequence of       *)
(* lines.  A line of the data section is text, <<"TEXT", characters>>,     *)
(* and may hold newlines until split('\n') cuts it; the other lines are    *)
(* <<>> (blank), <<".data">>, <<".text">>, <<".globl", name>>,             *)
(* <<"LABEL", name>> (`name:`), <<"LABEL", name, inst>> (`name: inst`)     *)
(* and an instruction <<op, operand, ...>>.  A line of the text section    *)
(* may be text too: it is then taken apart as lines 113-125 do, and the    *)
(* instruction it leaves is kept as text, <<"TEXT", characters>>.          *)

LineKind(line) == IF line = <<>> THEN "" ELSE line[1]

\* asm_code.split('\n'), for the lines lo..hi of the text
RECURSIVE SplitRange(_, _, _)
SplitRange(lines, lo, hi) ==
    IF lo > hi THEN <<>>
    ELSE IF lo = hi
    THEN IF LineKind(lines[lo]) = "TEXT"
         THEN LET parts == SplitNewline(lines[lo][2])
              IN  [k \in 1..Len(parts) |-> <<"TEXT", parts[k]>>]
         ELSE <<lines[lo]>>
    ELSE LET mid == (lo + hi) \div 2
         IN  SplitRange(lines, lo, mid) \o SplitRange(lines, mid + 1, hi)

SplitLines(lines) == SplitRange(lines, 1, Len(lines))

\* the strings of the loop of load_program before the first line
LoadStart ==
    [current_string_label |-> "", current_string |-> <<>>, data_strings |-> <<>>]

\* a string left open is stored as it stands when the text section starts
FlushString(st) ==
    IF st.current_string_label # ""
    THEN [st EXCEPT !.data_strings = PutString(@, st.current_string_label, st.current_string),
                    !.current_string_label = "", !.current_string = <<>>]
    ELSE st

\* a line of the data section (lines 87-111)
LoadDataLine(st, orig_line) ==
    LET m == MatchAsciiz(orig_line)
    IN  IF m[1]
        THEN LET st1 == IF st.current_string_label # ""
                        THEN [st EXCEPT !.data_strings =
                                 PutString(@, st.current_string_label, st.current_string)]
                        ELSE st
             IN  IF EndsWithQuote(m[3])
                 THEN [st1 EXCEPT !.data_strings = PutString(@, m[2], Unescape(DropLast(m[3]))),
                                  !.current_string_label = "", !.current_string = <<>>]
                 ELSE [st1 EXCEPT !.current_string_label = m[2],
                                  !.current_string = m[3] \o <<"\n">>]
        ELSE IF st.current_string_label # ""
        THEN IF EndsWithQuote(RStrip(orig_line))
             THEN [st EXCEPT !.data_strings =
                                 PutString(@, st.current_string_label,
                                           Unescape(st.current_string \o DropLast(RStrip(orig_line)))),
                             !.current_string_label = "", !.current_string = <<>>]
             ELSE [st EXCEPT !.current_string = @ \o orig_line \o <<"\n">>]
        ELSE st

\* line.strip() is empty or starts with '#'
Skipped(line) ==
    \/ line = <<>>
    \/ /\ LineKind(line) = "TEXT"
       /\ Strip(line[2]) = <<>> \/ Head(Strip(line[2])) = "#"

\* the lines that switch the section
SectionLine(line) == LineKind(line) \in {".data", ".text", ".globl"}

Max(S) == CHOOSE x \in S : \A y \in S : y <= x

Min(S) == CHOOSE x \in S : \A y \in S : x <= y

\* the section line in force when the loop reaches line i, <<>> if none
Section(lines, i) ==
    LET before == {j \in 1..(i - 1) : SectionLine(lines[j])}
    IN  IF before = {} THEN <<>> ELSE lines[Max(before)]

\* in_data and in_text when the loop reaches line i
InData(lines, i) == LineKind(Section(lines, i)) = ".data"
InText(lines, i) == LineKind(Section(lines, i)) \in {".text", ".globl"}

\* what the loop does to the strings, line after line: a line of the data
\* section goes through LoadDataLine, `.text` and `.globl` store the string
\* left open
RECURSIVE LoadStrings(_, _, _)
LoadStrings(st, lines, steps) ==
    IF steps = <<>> THEN st
    ELSE LET line == lines[Head(steps)]
         IN  LoadStrings(IF SectionLine(line) THEN FlushString(st)
                         ELSE LoadDataLine(st, line[2]),
                         lines, Tail(steps))

\* a line of the text section given as text (lines 113-125), stripped and
\* neither empty nor a comment: the label it defines ("" if none) and the
\* instructions it appends.  A line that holds a colon is a label line,
\* and is left by `continue` whether or not re.match(r'(\w+):') finds the
\* label at its start
LoadTextLine(text) ==
    LET line  == Strip(text)
        colon == {i \in 1..Len(line) : line[i] = ":"}
        n     == SpanWord(line, 1)
        rest  == Strip(SubSeq(line, Min(colon) + 1, Len(line)))
    IN  IF colon # {}
        THEN IF n >= 1 /\ n + 1 <= Len(line) /\ line[n + 1] = ":"
             THEN [label |-> Join(SubSeq(line, 1, n)),
                   appended |-> IF rest # <<>> /\ Head(rest) # "#"
                                THEN << <<"TEXT", rest>> >> ELSE <<>>]
             ELSE [label |-> "", appended |-> <<>>]
        ELSE [label |-> "",
              appended |-> IF Head(line) # "." THEN << <<"TEXT", line>> >> ELSE <<>>]

\* load_program(asm_code), up to the final set_reg of $sp.  The loop over
\* the lines appends the instruction of every line of the text section
\* (lines 113-125) and maps a label to len(self.instructions) at its line,
\* the number of instructions of the lines before it; a later line of the
\* same label overwrites the entry
LoadProgram(asm_code) ==
    LET lines == SplitLines(asm_code)
        index == [i \in 1..Len(lines) |-> i]
        Live(i) == ~Skipped(lines[i]) /\ ~SectionLine(lines[i])
        LabelOf(i) == IF LineKind(lines[i]) = "LABEL" THEN lines[i][2]
                      ELSE IF LineKind(lines[i]) = "TEXT" THEN LoadTextLine(lines[i][2]).label
                      ELSE ""
        IsLabel(i) == Live(i) /\ InText(lines, i) /\ LabelOf(i) # ""
        HasInstruction(i) ==
            /\ Live(i) /\ InText(lines, i)
            /\ LineKind(lines[i]) = "TEXT" => LoadTextLine(lines[i][2]).appended # <<>>
            /\ LineKind(lines[i]) = "LABEL" => Len(lines[i]) > 2
        StringStep(i) ==
            \/ LineKind(lines[i]) \in {".text", ".globl"}
            \/ Live(i) /\ InData(lines, i) /\ LineKind(lines[i]) = "TEXT"
        at == SelectSeq(index, HasInstruction)
        names == {LabelOf(i) : i \in {j \in 1..Len(lines) : IsLabel(j)}}
    IN  [data_strings |-> LoadStrings(LoadStart, lines, SelectSeq(index, StringStep)).data_strings,
         labels |-> [l \in names |->
                        LET last == Max({i \in 1..Len(lines) : IsLabel(i) /\ LabelOf(i) = l})
                        IN  Cardinality({k \in 1..Len(at) : at[k] < last})],
         instructions |-> [k \in 1..Len(at) |->
                              IF LineKind(lines[at[k]]) = "LABEL" THEN lines[at[k]][3]
                              ELSE IF LineKind(lines[at[k]]) = "TEXT"
                              THEN LoadTextLine(lines[at[k]][2]).appended[1]
                              ELSE lines[at[k]]]]

-----------------------------------------------------------------------------
(* Lexer.tokenize: the scanning of a number and of a string literal.       *)

\* lines 38-44: the digits from position pos (1-based here), <<text, pos'>>
RECURSIVE ScanNumber(_, _)
ScanNumber(code, pos) ==
    IF pos <= Len(code) /\ IsDigit(code[pos])
    THEN LET r == ScanNumber(code, pos + 1) IN <<<<code[pos]>> \o r[1], r[2]>>
    ELSE <<<<>>, pos>>

\* Token('NUMBER', int(num))
NumberToken(code, pos) == ParseNat(ScanNumber(code, pos)[1], Zero)

\* lines 63-72: the loop over the characters after the opening quote
RECURSIVE ScanString(_, _)
ScanString(code, pos) ==
    IF pos <= Len(code) /\ code[pos] # "\""
    THEN IF code[pos] = "\\" /\ pos + 1 <= Len(code)
         THEN LET c == IF code[pos + 1] = "n" THEN "\n" ELSE code[pos + 1]
                  r == ScanString(code, pos + 2)
              IN  <<<<c>> \o r[1], r[2]>>
         ELSE LET r == ScanString(code, pos + 1)
              IN  <<<<code[pos]>> \o r[1], r[2]>>
    ELSE <<<<>>, pos>>

\* Token('STRING', string) of the literal whose opening quote is at pos
StringToken(code, pos) == ScanString(code, pos + 1)[1]

\* Token(type, value, line): the line is not kept
Token(type, value) == <<type, value>>

\* the element of a set of one element
Only(S) == CHOOSE x \in S : TRUE

Keywords == {"int", "if", "else", "while", "for", "return", "void"}

TwoCharOperators == {"==", "!=", "<=", ">=", "++", "--"}

\* str.isalpha() and str.isalnum() of the characters of the model's texts
IsAlpha(c) == c \in Lower \/ c \in Upper

IsAlnum(c) == IsAlpha(c) \/ IsDigit(c)

\* self.code[at]
CodeAt(at) == code_[at + 1]

\* self.code[from:to]
Slice(from, to) == SubSeq(code_, from + 1, IF to > Len(code_) THEN Len(code_) ELSE to)

\* lines 33-34: the position of the end of the line or of the text
RECURSIVE SkipComment(_)
SkipComment(at) ==
    IF at < Len(code_) /\ CodeAt(at) # "\n" THEN SkipComment(at + 1) ELSE at

\* lines 49-51: the position after the identifier
RECURSIVE ScanIdent(_)
ScanIdent(at) ==
    IF at < Len(code_) /\ (IsAlnum(CodeAt(at)) \/ CodeAt(at) = "_")
    THEN ScanIdent(at + 1) ELSE at

\* self.tokens.append(Token(type, value)), self.pos being moved to `to`;
\* spans (history) keeps where in the text the token was read
Lexed(st, type, value, to) ==
    [pos |-> to, tokens |-> Append(st.tokens, Token(type, value)),
     spans |-> Append(st.spans, <<st.pos, to>>)]

\* a character that starts no token is passed over (line 92)
Ignored(st) == [st EXCEPT !.pos = @ + 1]

\* one iteration of the loop of tokenize (lines 25-92)
LexStep(st) ==
    LET at == st.pos
        c  == CodeAt(at)
    IN  IF IsSpace(c) THEN [st EXCEPT !.pos = at + 1]
        ELSE IF at + 1 < Len(code_) /\ Slice(at, at + 2) = <<"/", "/">>
        THEN [st EXCEPT !.pos = SkipComment(at)]
        ELSE IF IsDigit(c)
        THEN Only({Lexed(st, "NUMBER", ParseNat(num[1], Zero), num[2] - 1) :
                      num \in {ScanNumber(code_, at + 1)}})
        ELSE IF IsAlpha(c) \/ c = "_"
        THEN Only({Lexed(st, IF ident \in Keywords THEN "KEYWORD" ELSE "IDENT", ident,
                         at + Len(ident)) :
                      ident \in {Join(Slice(at, ScanIdent(at)))}})
        ELSE IF c = "\""
        THEN Only({Lexed(st, "STRING", string[1], string[2]) :
                      string \in {ScanString(code_, at + 2)}})
        ELSE IF at + 1 < Len(code_) /\ Join(Slice(at, at + 2)) \in TwoCharOperators
        THEN Lexed(st, "OP", Join(Slice(at, at + 2)), at + 2)
        ELSE IF c \in {"+", "-", "*", "/", "%", "=", "<", ">", "!"}
        THEN Lexed(st, "OP", c, at + 1)
        ELSE IF c \in {"(", ")", ";", "{", "}", ","}
        THEN Lexed(st, "PUNCT", c, at + 1)
        ELSE Ignored(st)

\* tokenize: while self.pos < len(self.code)
RECURSIVE Lex(_)
Lex(st) ==
    IF st.pos >= Len(code_) THEN st
    ELSE Only({Lex(next) : next \in {LexStep(st)}})

-----------------------------------------------------------------------------
(* Parser: the nodes of the tree (the dict literals the parser returns).   *)
(* None is the node of type "None"; an absent else branch is <<>>.         *)

None == [type |-> "None"]

Number(value) == [type |-> "Number", value |-> value]
String(value) == [type |-> "String", value |-> value]
Var(name) == [type |-> "Var", name |-> name]
Call(name, args) == [type |-> "Call", name |-> name, args |-> args]
BinOp(op, left, right) == [type |-> "BinOp", op |-> op, left |-> left, right |-> right]
Assign(left, right) == [type |-> "Assign", left |-> left, right |-> right]
PreOp(op, operand) == [type |-> "PreOp", op |-> op, operand |-> operand]
PostOp(op, operand) == [type |-> "PostOp", op |-> op, operand |-> operand]
Declaration(name, init) == [type |-> "Declaration", name |-> name, init |-> init]
ExprStmt(expr) == [type |-> "ExprStmt", expr |-> expr]
Return(value) == [type |-> "Return", value |-> value]
If(condition, then, else) ==
    [type |-> "If", condition |-> condition, then |-> then, else |-> else]
While(condition, body) == [type |-> "While", condition |-> condition, body |-> body]
For(init, condition, update, body) ==
    [type |-> "For", init |-> init, condition |-> condition, update |-> update, body |-> body]
Function(name, body) == [type |-> "Function", name |-> name, body |-> body]

-----------------------------------------------------------------------------
(* Parser.  A token is <<type, value>>.  r is the state of a parse: the    *)
(* position, the message of the exception raised ("" if none), the node    *)
(* the last call returned, and (history, not program state) the number of  *)
(* loop iterations completed.  A raised exception passes through every     *)
(* later call unchanged.  The return_type of a function is not kept, and   *)
(* an empty else block is, like an absent one, <<>>.  The result of a call *)
(* is bound once, as a Python local is, by Only({... : x \in {call}}).     *)

Start == [pos |-> 0, err |-> "", node |-> None, loops |-> 0]

Raised(r) == r.err # ""

Fail(r, msg) == [r EXCEPT !.err = msg]

\* `return node`
With(r, node) == IF Raised(r) THEN r ELSE [r EXCEPT !.node = node]

\* one more iteration of a loop has been completed
Loop(r) == IF Raised(r) THEN r ELSE [r EXCEPT !.loops = @ + 1]

\* peek() is None
AtEnd(at) == at >= Len(tokens)

\* peek(), when it is a token
Peek(at) == tokens[at + 1]

\* self.peek() and self.peek().type == type and self.peek().value == value
PeekIs(at, type, value) == ~AtEnd(at) /\ Peek(at)[1] = type /\ Peek(at)[2] = value

\* self.peek() and self.peek().type == 'OP' and self.peek().value in values
PeekOp(at, values) == ~AtEnd(at) /\ Peek(at)[1] = "OP" /\ Peek(at)[2] \in values

\* the message of the AttributeError of None.type
NoneHasNoType == "'NoneType' object has no attribute 'type'"

\* consume(expected_type, expected_value); "" stands for an absent argument
Consume(r, expected_type, expected_value) ==
    IF Raised(r) THEN r
    ELSE IF AtEnd(r.pos) THEN Fail(r, "Unexpected end of input")
    ELSE IF expected_type # "" /\ Peek(r.pos)[1] # expected_type
    THEN Fail(r, "Expected " \o expected_type \o ", got " \o Peek(r.pos)[1])
    ELSE IF expected_value # "" /\ Peek(r.pos)[2] # expected_value
    THEN Fail(r, "Expected '" \o expected_value \o "', got '" \o Peek(r.pos)[2] \o "'")
    ELSE [r EXCEPT !.pos = @ + 1]

RECURSIVE ParseExpression(_), ParseStatement(_), ParseArgs(_, _), OperatorLoop(_, _),
          ParseBlock(_, _), SkipParams(_), ParseFunctions(_, _)

\* parse_primary: the loop over the arguments after the first
ParseArgs(r, args) ==
    IF Raised(r) THEN r
    ELSE IF PeekIs(r.pos, "PUNCT", ",")
    THEN Only({ParseArgs(Loop(next), Append(args, r.node)) :
                  next \in {ParseExpression(Consume(r, "PUNCT", ","))}})
    ELSE With(r, Append(args, r.node))

ParsePrimary(r) ==
    IF Raised(r) THEN r
    ELSE IF AtEnd(r.pos) THEN Fail(r, NoneHasNoType)
    ELSE LET token == Peek(r.pos)
             next  == [r EXCEPT !.pos = @ + 1]
         IN  CASE token[1] = "NUMBER" -> With(next, Number(token[2]))
               [] token[1] = "STRING" -> With(next, String(token[2]))
               [] token[1] = "IDENT" ->
                    IF ~PeekIs(next.pos, "PUNCT", "(") THEN With(next, Var(token[2]))
                    ELSE IF PeekIs(next.pos + 1, "PUNCT", ")")
                    THEN With(Consume(Consume(next, "PUNCT", "("), "PUNCT", ")"), Call(token[2], <<>>))
                    ELSE Only({Only({With(Consume(args, "PUNCT", ")"), Call(token[2], args.node)) :
                                        args \in {ParseArgs(first, <<>>)}}) :
                                  first \in {ParseExpression(Consume(next, "PUNCT", "("))}})
               [] token[1] = "PUNCT" /\ token[2] = "(" ->
                    Only({With(Consume(expr, "PUNCT", ")"), expr.node) :
                             expr \in {ParseExpression(next)}})
               [] OTHER -> Fail(r, "Unexpected token: Token(" \o token[1] \o ", " \o token[2] \o ")")

ParseUnary(r) ==
    IF Raised(r) THEN r
    ELSE IF PeekOp(r.pos, {"++", "--"})
    THEN Only({With(operand, PreOp(Peek(r.pos)[2], operand.node)) :
                  operand \in {ParsePrimary(Consume(r, "OP", ""))}})
    ELSE Only({IF ~Raised(expr) /\ PeekOp(expr.pos, {"++", "--"})
               THEN With(Consume(expr, "OP", ""), PostOp(Peek(expr.pos)[2], expr.node))
               ELSE expr :
                  expr \in {ParsePrimary(r)}})

\* the operators of the three loops, mutated: additive and multiplicative
\* exchanged
OperatorsExchanged(level) ==
    CASE level = 1 -> {"<", ">", "==", "!=", "<=", ">="}
      [] level = 2 -> {"*", "/", "%"}
      [] level = 3 -> {"+", "-"}

\* the operators of the three loops: comparison, additive, multiplicative
Operators(level) ==
    CASE level = 1 -> {"<", ">", "==", "!=", "<=", ">="}
      [] level = 2 -> {"+", "-"}
      [] level = 3 -> {"*", "/", "%"}

ParseMultiplicative(r) == Only({OperatorLoop(3, left) : left \in {ParseUnary(r)}})

ParseAdditive(r) == Only({OperatorLoop(2, left) : left \in {ParseMultiplicative(r)}})

ParseComparison(r) == Only({OperatorLoop(1, left) : left \in {ParseAdditive(r)}})

\* the while loop of parse_comparison / parse_additive / parse_multiplicative
OperatorLoop(level, left) ==
    IF Raised(left) THEN left
    ELSE IF PeekOp(left.pos, Operators(level))
    THEN Only({OperatorLoop(level, next) :
                  next \in {Only({Loop(With(right, BinOp(Peek(left.pos)[2], left.node, right.node))) :
                                     right \in {CASE level = 1 -> ParseAdditive(Consume(left, "OP", ""))
                                                  [] level = 2 -> ParseMultiplicative(Consume(left, "OP", ""))
                                                  [] level = 3 -> ParseUnary(Consume(left, "OP", ""))}})}})
    ELSE left

ParseExpression(r) ==
    Only({IF ~Raised(expr) /\ PeekIs(expr.pos, "OP", "=")
          THEN Only({With(right, Assign(expr.node, right.node)) :
                        right \in {ParseExpression(Consume(expr, "OP", "="))}})
          ELSE expr :
             expr \in {ParseComparison(r)}})

ParseExpressionStatement(r) ==
    Only({With(Consume(expr, "PUNCT", ";"), ExprStmt(expr.node)) :
             expr \in {ParseExpression(r)}})

\* an optional expression: None when the token that ends it comes first
ParseOptional(r, end) ==
    IF Raised(r) \/ PeekIs(r.pos, "PUNCT", end) THEN With(r, None) ELSE ParseExpression(r)

ParseReturn(r) ==
    Only({With(Consume(value, "PUNCT", ";"), Return(value.node)) :
             value \in {ParseOptional(Consume(r, "KEYWORD", "return"), ";")}})

ParseDeclaration(r) ==
    LET name == Consume(Consume(r, "KEYWORD", "int"), "IDENT", "")
    IN  Only({With(Consume(init, "PUNCT", ";"), Declaration(Peek(r.pos + 1)[2], init.node)) :
                 init \in {IF ~Raised(name) /\ PeekIs(name.pos, "OP", "=")
                           THEN ParseExpression(Consume(name, "OP", "="))
                           ELSE With(name, None)}})

\* the loop over the statements of a block, up to its closing brace
ParseBlock(r, body) ==
    IF Raised(r) THEN r
    ELSE IF PeekIs(r.pos, "PUNCT", "}") THEN With(r, body)
    ELSE Only({ParseBlock(Loop(stmt), Append(body, stmt.node)) : stmt \in {ParseStatement(r)}})

\* the body of an if, else, while or for: a block in braces or one statement
ParseBody(r) ==
    IF Raised(r) THEN r
    ELSE IF PeekIs(r.pos, "PUNCT", "{")
    THEN Only({With(Consume(body, "PUNCT", "}"), body.node) :
                  body \in {ParseBlock(Consume(r, "PUNCT", "{"), <<>>)}})
    ELSE Only({With(stmt, <<stmt.node>>) : stmt \in {ParseStatement(r)}})

\* the else part of an if: <<>> when there is none
ParseElse(r) ==
    IF ~Raised(r) /\ PeekIs(r.pos, "KEYWORD", "else")
    THEN ParseBody(Consume(r, "KEYWORD", "else"))
    ELSE With(r, <<>>)

ParseIf(r) ==
    Only({Only({Only({With(else_body, If(condition.node, then_body.node, else_body.node)) :
                         else_body \in {ParseElse(then_body)}}) :
                   then_body \in {ParseBody(Consume(condition, "PUNCT", ")"))}}) :
             condition \in {ParseExpression(Consume(Consume(r, "KEYWORD", "if"), "PUNCT", "("))}})

ParseWhile(r) ==
    Only({Only({With(body, While(condition.node, body.node)) :
                   body \in {ParseBody(Consume(condition, "PUNCT", ")"))}}) :
             condition \in {ParseExpression(Consume(Consume(r, "KEYWORD", "while"), "PUNCT", "("))}})

\* the first clause of a for header, its semicolon included
ParseForInit(r) ==
    IF Raised(r) THEN r
    ELSE IF PeekIs(r.pos, "PUNCT", ";") THEN With(Consume(r, "PUNCT", ";"), None)
    ELSE IF AtEnd(r.pos) THEN Fail(r, NoneHasNoType)
    ELSE IF PeekIs(r.pos, "KEYWORD", "int") THEN ParseDeclaration(r)
    ELSE Only({With(Consume(expr, "PUNCT", ";"), expr.node) : expr \in {ParseExpression(r)}})

ParseFor(r) ==
    Only({Only({Only({Only({With(body, For(init.node, condition.node, update.node, body.node)) :
                               body \in {ParseBody(Consume(update, "PUNCT", ")"))}}) :
                         update \in {ParseOptional(Consume(condition, "PUNCT", ";"), ")")}}) :
                   condition \in {ParseOptional(init, ";")}}) :
             init \in {ParseForInit(Consume(Consume(r, "KEYWORD", "for"), "PUNCT", "("))}})

ParseStatement(r) ==
    IF Raised(r) THEN r
    ELSE IF AtEnd(r.pos) THEN Fail(r, NoneHasNoType)
    ELSE LET token == Peek(r.pos)
         IN  CASE token[1] = "KEYWORD" /\ token[2] = "int"    -> ParseDeclaration(r)
               [] token[1] = "KEYWORD" /\ token[2] = "if"     -> ParseIf(r)
               [] token[1] = "KEYWORD" /\ token[2] = "while"  -> ParseWhile(r)
               [] token[1] = "KEYWORD" /\ token[2] = "for"    -> ParseFor(r)
               [] token[1] = "KEYWORD" /\ token[2] = "return" -> ParseReturn(r)
               [] OTHER -> ParseExpressionStatement(r)

\* parse_function: the loop that skips the parameters
SkipParams(r) ==
    IF Raised(r) \/ AtEnd(r.pos) \/ PeekIs(r.pos, "PUNCT", ")") THEN r
    ELSE Only({SkipParams(next) : next \in {Loop(Consume(r, "", ""))}})

ParseFunction(r) ==
    Only({Only({With(Consume(body, "PUNCT", "}"), Function(Peek(r.pos + 1)[2], body.node)) :
                   body \in {ParseBlock(Consume(Consume(params, "PUNCT", ")"), "PUNCT", "{"), <<>>)}}) :
             params \in {SkipParams(Consume(Consume(Consume(r, "KEYWORD", ""), "IDENT", ""),
                                            "PUNCT", "("))}})

\* the loop of parse, mutated: it ends after the first function
ParseFirstFunction(r, functions) ==
    IF Raised(r) THEN r
    ELSE IF AtEnd(r.pos) THEN With(r, functions)
    ELSE Only({With(Loop(function), Append(functions, function.node)) :
                  function \in {ParseFunction(r)}})

\* the loop of parse: while self.pos < len(self.tokens)
ParseFunctions(r, functions) ==
    IF Raised(r) THEN r
    ELSE IF AtEnd(r.pos) THEN With(r, functions)
    ELSE Only({ParseFunctions(Loop(function), Append(functions, function.node)) :
                  function \in {ParseFunction(r)}})

-----------------------------------------------------------------------------
(* CodeGen.  g is the generator's state: output, data, string_count,       *)
(* label_count, vars, stack_offset.                                        *)

Emit(g, line) == [g EXCEPT !.output = Append(@, line)]

RECURSIVE EmitAll(_, _)
EmitAll(g, lines) ==
    IF lines = <<>> THEN g ELSE EmitAll(Emit(g, Head(lines)), Tail(lines))

\* new_label, mutated: the counter is not advanced
NewLabelNoIncrement(prefix, count) == <<prefix \o ToString(count), count>>

\* new_label: <<label, label_count'>>
NewLabel(prefix, count) == <<prefix \o ToString(count), count + 1>>

StrPrefix == <<"s", "t", "r">>

AsciizOpen == <<":", " ", ".", "a", "s", "c", "i", "i", "z", " ", "\"">>

\* add_string: <<label, g'>>
AddString(g, string) ==
    LET label == StrPrefix \o Str(Big(g.string_count))
    IN  <<Join(label),
          [g EXCEPT !.string_count = @ + 1,
                    !.data = Append(@, <<"TEXT", label \o AsciizOpen \o string \o <<"\"">>>>)]>>

\* f"{offset}($fp)"
FpSlot(offset) == <<Str(Big(offset)), "$fp">>

\* the instructions of a binary operator, operands in $t0 (left), $t1 (right)
BinOpCode(op) ==
    CASE op = "+"  -> << <<"add", "$t0", "$t0", "$t1">> >>
      [] op = "-"  -> << <<"sub", "$t0", "$t0", "$t1">> >>
      [] op = "*"  -> << <<"mul", "$t0", "$t0", "$t1">> >>
      [] op = "/"  -> << <<"div", "$t0", "$t1">>, <<"mflo", "$t0">> >>
      [] op = "%"  -> << <<"div", "$t0", "$t1">>, <<"mfhi", "$t0">> >>
      [] op = "<"  -> << <<"slt", "$t0", "$t0", "$t1">> >>
      [] op = ">"  -> << <<"slt", "$t0", "$t1", "$t0">> >>
      [] op = "==" -> << <<"sub", "$t0", "$t0", "$t1">>,
                         <<"slt", "$t2", "$t0", "$zero">>,
                         <<"slt", "$t3", "$zero", "$t0">>,
                         <<"or", "$t0", "$t2", "$t3">>,
                         <<"xori", "$t0", "$t0", <<"1">>>> >>
      [] op = "!=" -> << <<"sub", "$t0", "$t0", "$t1">>,
                         <<"sltu", "$t0", "$zero", "$t0">>,
                         <<"andi", "$t0", "$t0", <<"1">>>> >>
      [] op = "<=" -> << <<"slt", "$t0", "$t1", "$t0">>,
                         <<"xori", "$t0", "$t0", <<"1">>>> >>
      [] op = ">=" -> << <<"slt", "$t0", "$t0", "$t1">>,
                         <<"xori", "$t0", "$t0", <<"1">>>> >>
      [] OTHER     -> <<>>

\* the lw / addi / sw of ++ and -- on the slot at offset
StepCode(op, offset) ==
    << <<"addi", "$t0", "$t0", IF op = "++" THEN <<"1">> ELSE <<"-", "1">>>>,
       <<"sw", "$t0", FpSlot(offset)>> >>

\* gen_expr
RECURSIVE GenExpr(_, _)
GenExpr(g, expr) ==
    CASE expr.type = "Number" -> Emit(g, <<"li", "$t0", Str(expr.value)>>)
      [] expr.type = "String" ->
            LET r == AddString(g, expr.value)
            IN  Emit(r[2], <<"la", "$t0", r[1]>>)
      [] expr.type = "Var" -> Emit(g, <<"lw", "$t0", FpSlot(g.vars[expr.name])>>)
      [] expr.type = "Assign" ->
            LET g1 == GenExpr(g, expr.right)
            IN  IF expr.left.type = "Var"
                THEN Emit(g1, <<"sw", "$t0", FpSlot(g1.vars[expr.left.name])>>)
                ELSE g1
      [] expr.type = "BinOp" ->
            LET g1 == EmitAll(GenExpr(g, expr.left),
                              << <<"addi", "$sp", "$sp", <<"-", "4">>>>,
                                 <<"sw", "$t0", <<<<"0">>, "$sp">>>> >>)
                g2 == EmitAll(GenExpr(g1, expr.right),
                              << <<"move", "$t1", "$t0">>,
                                 <<"lw", "$t0", <<<<"0">>, "$sp">>>>,
                                 <<"addi", "$sp", "$sp", <<"4">>>> >>)
            IN  EmitAll(g2, BinOpCode(expr.op))
      [] expr.type = "PreOp" ->
            LET offset == g.vars[expr.operand.name]
            IN  EmitAll(g, << <<"lw", "$t0", FpSlot(offset)>> >> \o StepCode(expr.op, offset))
      [] expr.type = "PostOp" ->
            LET offset == g.vars[expr.operand.name]
            IN  EmitAll(g, << <<"lw", "$t0", FpSlot(offset)>>, <<"move", "$t2", "$t0">> >>
                           \o StepCode(expr.op, offset)
                           \o << <<"move", "$t0", "$t2">> >>)
      [] expr.type = "Call" ->
            IF expr.name \in {"print_int", "print_str"}
            THEN EmitAll(GenExpr(g, expr.args[1]),
                         << <<"move", "$a0", "$t0">>, <<"jal", expr.name>> >>)
            ELSE g

\* gen_stmt for a Declaration
GenDeclaration(g, stmt) ==
    LET g1 == [Emit(g, <<"addi", "$sp", "$sp", <<"-", "4">>>>)
                  EXCEPT !.stack_offset = @ + 4]
        g2 == [g1 EXCEPT !.vars =
                  [n \in DOMAIN g1.vars \cup {stmt.name} |->
                      IF n = stmt.name THEN 0 - g1.stack_offset ELSE g1.vars[n]]]
    IN  IF stmt.init.type # "None"
        THEN Emit(GenExpr(g2, stmt.init), <<"sw", "$t0", FpSlot(g2.vars[stmt.name])>>)
        ELSE g2

-----------------------------------------------------------------------------
(* gen_stmt and gen_function, one call at a time.  `work` holds what the   *)
(* calls in progress still have to do, first thing first: a statement to   *)
(* generate, [k |-> "stmt", stmt], or the rest of a suspended call,        *)
(* [k |-> "cont", expr, lines] (an optional expression, then lines).       *)

StmtItems(stmts) == [i \in 1..Len(stmts) |-> [k |-> "stmt", stmt |-> stmts[i]]]

Cont(expr, lines) == [k |-> "cont", expr |-> expr, lines |-> lines]

LabelLine(label) == <<"LABEL", label>>

BeqZero(label) == <<"beq", "$t0", "$zero", label>>

\* gen_expr(e) when e is given
GenOptional(g, expr) == IF expr.type # "None" THEN GenExpr(g, expr) ELSE g

\* the two new_label calls of a control construct: <<first, second, g'>>
TwoLabels(g, prefix1, prefix2) ==
    LET l1 == NewLabel(prefix1, g.label_count)
        l2 == NewLabel(prefix2, l1[2])
    IN  <<l1[1], l2[1], [g EXCEPT !.label_count = l2[2]]>>

\* the move of a returned value, mutated: the wrong source register
ReturnValueFromT1 == <<"move", "$v0", "$t1">>

\* the move of a returned value (line 508)
ReturnValue == <<"move", "$v0", "$t0">>

\* the label a Return jumps to (line 509)
ReturnTarget == "main_exit"

\* gen_stmt(stmt) up to its first nested gen_stmt: <<g', work items>>
GenStmtStep(g, stmt) ==
    CASE stmt.type = "Declaration" -> <<GenDeclaration(g, stmt), <<>>>>
      [] stmt.type = "ExprStmt" -> <<GenExpr(g, stmt.expr), <<>>>>
      [] stmt.type = "If" ->
            LET l == TwoLabels(g, "else", "endif")
            IN  <<Emit(GenExpr(l[3], stmt.condition), BeqZero(l[1])),
                  StmtItems(stmt.then)
                  \o <<Cont(None, << <<"j", l[2]>>, LabelLine(l[1]) >>)>>
                  \o StmtItems(stmt.else)
                  \o <<Cont(None, << LabelLine(l[2]) >>)>> >>
      [] stmt.type = "While" ->
            LET l == TwoLabels(g, "while", "endwhile")
            IN  <<Emit(GenExpr(Emit(l[3], LabelLine(l[1])), stmt.condition), BeqZero(l[2])),
                  StmtItems(stmt.body)
                  \o <<Cont(None, << <<"j", l[1]>>, LabelLine(l[2]) >>)>> >>
      [] stmt.type = "For" ->
            LET l  == TwoLabels(g, "for", "endfor")
                g1 == IF stmt.init.type = "Declaration" THEN GenDeclaration(l[3], stmt.init)
                      ELSE GenOptional(l[3], stmt.init)
                g2 == Emit(g1, LabelLine(l[1]))
                g3 == IF stmt.condition.type # "None"
                      THEN Emit(GenExpr(g2, stmt.condition), BeqZero(l[2]))
                      ELSE g2
            IN  <<g3,
                  StmtItems(stmt.body)
                  \o <<Cont(stmt.update, << <<"j", l[1]>>, LabelLine(l[2]) >>)>> >>
      [] stmt.type = "Return" ->
            <<Emit(IF stmt.value.type # "None"
                   THEN Emit(GenExpr(g, stmt.value), ReturnValue)
                   ELSE g,
                   <<"j", ReturnTarget>>),
              <<>>>>
      [] OTHER -> <<g, <<>>>>

Prologue ==
    << <<"addi", "$sp", "$sp", <<"-", "8">>>>,
       <<"sw", "$ra", <<<<"4">>, "$sp">>>>,
       <<"sw", "$fp", <<<<"0">>, "$sp">>>>,
       <<"move", "$fp", "$sp">> >>

\* the epilogue, mutated: $sp is not moved back to the frame
EpilogueKeepsSp ==
    << <<"lw", "$fp", <<<<"0">>, "$sp">>>>,
       <<"lw", "$ra", <<<<"4">>, "$sp">>>>,
       <<"addi", "$sp", "$sp", <<"8">>>>,
       <<"jr", "$ra">> >>

\* the lines gen_function emits after the exit label (lines 426-430)
Epilogue ==
    << <<"move", "$sp", "$fp">>,
       <<"lw", "$fp", <<<<"0">>, "$sp">>>>,
       <<"lw", "$ra", <<<<"4">>, "$sp">>>>,
       <<"addi", "$sp", "$sp", <<"8">>>>,
       <<"jr", "$ra">> >>

\* f"{func['name']}_exit"
ExitLabel(name) == name \o "_exit"

\* the lines generate puts after the functions
Runtime ==
    << <<>>,
       LabelLine("print_int"), <<"li", "$v0", <<"1">>>>, <<"syscall">>, <<"jr", "$ra">>,
       <<>>,
       LabelLine("print_str"), <<"li", "$v0", <<"4">>>>, <<"syscall">>, <<"jr", "$ra">> >>

\* the generator's state, from and to the variables
CurGen ==
    [output |-> output, data |-> data, string_count |-> string_count,
     label_count |-> label_count, vars |-> vars_, stack_offset |-> stack_offset]

SetGen(g) ==
    /\ output' = g.output
    /\ data' = g.data
    /\ string_count' = g.string_count
    /\ label_count' = g.label_count
    /\ vars_' = g.vars
    /\ stack_offset' = g.stack_offset

\* main: lexer.tokenize(); its tokens go to the Parser
Tokenize ==
    /\ phase = "lex"
    /\ LET st == Lex([pos |-> 0, tokens |-> <<>>, spans |-> <<>>])
       IN  /\ lexer_pos' = st.pos
           /\ tokens' = st.tokens
           /\ hist' = [hist EXCEPT !.spans = st.spans]
    /\ phase' = "parse"
    /\ UNCHANGED <<code_, pos_, ast, error, asm, cgvars, regs, memory, data_strings, labels, pc,
                   instructions, running, lohi, iterations, out>>

\* main: parser.parse(); its tree goes to codegen.generate
Parse ==
    /\ phase = "parse"
    /\ LET r == ParseFunctions(Start, <<>>)
       IN  /\ pos_' = r.pos
           /\ hist' = [hist EXCEPT !.loops = r.loops]
           /\ IF Raised(r)
              THEN phase' = "fatal" /\ error' = r.err /\ UNCHANGED <<ast, todo>>
              ELSE phase' = "gen" /\ ast' = r.node /\ todo' = r.node /\ UNCHANGED error
    /\ UNCHANGED <<code_, lexer_pos, tokens, asm, work, output, data, label_count, string_count, vars_, stack_offset,
                   regs, memory, data_strings, labels, pc, instructions, running, lohi,
                   iterations, out>>

\* generate: the next function of the tree; gen_function up to its body
GenFunction ==
    /\ phase = "gen" /\ work = <<>> /\ todo # <<>>
    /\ LET func == Head(todo)
           g    == EmitAll(Emit(CurGen, LabelLine(func.name)), Prologue)
       IN  /\ SetGen([g EXCEPT !.vars = <<>>, !.stack_offset = 0])
           /\ work' = StmtItems(func.body)
                      \o <<Cont(None, <<LabelLine(ExitLabel(func.name))>> \o Epilogue \o << <<>> >>)>>
           /\ todo' = Tail(todo)
    /\ UNCHANGED <<phase, error, code_, lexer_pos, tokens, pos_, ast, asm, simvars>>

\* gen_stmt(stmt) for the next statement
GenStmt ==
    /\ phase = "gen" /\ work # <<>> /\ Head(work).k = "stmt"
    /\ LET r == GenStmtStep(CurGen, Head(work).stmt)
       IN  /\ SetGen(r[1])
           /\ work' = r[2] \o Tail(work)
    /\ UNCHANGED <<phase, error, code_, lexer_pos, tokens, pos_, ast, todo, asm, simvars>>

\* the rest of a gen_stmt or gen_function call, after its nested statements
GenResume ==
    /\ phase = "gen" /\ work # <<>> /\ Head(work).k = "cont"
    /\ SetGen(EmitAll(GenOptional(CurGen, Head(work).expr), Head(work).lines))
    /\ work' = Tail(work)
    /\ UNCHANGED <<phase, error, code_, lexer_pos, tokens, pos_, ast, todo, asm, simvars>>

\* generate, after the last function: the assembly text
Generate ==
    /\ phase = "gen" /\ work = <<>> /\ todo = <<>>
    /\ asm' = << <<".data">> >> \o data
              \o << <<>>, <<".text">>, <<".globl", "main">>, <<>> >>
              \o output \o Runtime
    /\ phase' = "asm"
    /\ UNCHANGED <<error, code_, lexer_pos, tokens, pos_, ast, cgvars, simvars>>

-----------------------------------------------------------------------------
(* MIPSInterpreter: load_program and run.                                  *)

\* load_program(asm_code)
Load ==
    /\ phase = "asm"
    /\ LET st == LoadProgram(asm)
       IN  /\ data_strings' = st.data_strings
           /\ labels' = st.labels
           /\ instructions' = st.instructions
    /\ regs' = SetReg(regs, "$sp", InitialSp)
    /\ phase' = "loaded"
    /\ UNCHANGED <<error, code_, lexer_pos, tokens, pos_, ast, asm, cgvars, memory, pc, running, lohi, iterations, out, hist>>

\* run, up to its loop
Run ==
    /\ phase = "loaded"
    /\ IF "main" \in DOMAIN labels
       THEN /\ pc' = labels["main"]
            /\ iterations' = 0
            /\ phase' = "run"
            /\ error' = error
       ELSE /\ phase' = "fatal"
            /\ error' = "No main function found"
            /\ UNCHANGED <<pc, iterations>>
    /\ UNCHANGED <<code_, lexer_pos, tokens, pos_, ast, asm, cgvars, regs, memory, data_strings, labels, instructions,
                   running, lohi, out, hist>>

\* the simulator's state as the record Exec works on
CurSim ==
    [regs |-> regs, memory |-> memory, pc |-> pc, running |-> running,
     lohi |-> lohi, out |-> out, err |-> ""]

\* inst[:inst.index('#')] if '#' in inst
BeforeComment(text) ==
    LET hash == {i \in 1..Len(text) : text[i] = "#"}
    IN  IF hash = {} THEN text ELSE SubSeq(text, 1, Min(hash) - 1)

\* the non-empty pieces of text between the characters of seps, from
\* position i on, cur being the piece collected so far
RECURSIVE PiecesFrom(_, _, _, _)
PiecesFrom(text, seps, i, cur) ==
    LET done == IF cur = <<>> THEN <<>> ELSE <<cur>>
    IN  IF i > Len(text) THEN done
        ELSE IF text[i] \in seps THEN done \o PiecesFrom(text, seps, i + 1, <<>>)
        ELSE PiecesFrom(text, seps, i + 1, Append(cur, text[i]))

\* inst.split()
Parts(text) == PiecesFrom(text, {" ", "\t", "\n", "\r"}, 1, <<>>)

\* operands.extend(part.split(',')) for the parts after the opcode, without
\* the empty pieces
RECURSIVE Operands(_)
Operands(parts) ==
    IF parts = <<>> THEN <<>>
    ELSE PiecesFrom(Head(parts), {","}, 1, <<>>) \o Operands(Tail(parts))

\* an operand as instructions hold it: a number stays text, a name is a string
OperandOf(text) == IF IsDigit(Head(text)) \/ Head(text) = "-" THEN text ELSE Join(text)

\* the opcode and the operands execute takes from an instruction kept as
\* text (lines 150-164); the raw instructions have no offset(register)
\* operand.  No parts: the empty opcode, for which execute only adds 1 to pc
Fields(inst) ==
    IF LineKind(inst) # "TEXT" THEN inst
    ELSE LET parts == Parts(Strip(BeforeComment(inst[2])))
             operands == Operands(Tail(parts))
         IN  IF parts = <<>> THEN <<"">>
             ELSE <<Join(Head(parts))>> \o [k \in 1..Len(operands) |-> OperandOf(operands[k])]

\* the instruction the next iteration executes
CurInst == Fields(instructions[pc + 1])

\* while self.running and iterations < max_iter
LoopCondition == running /\ iterations < max_iter

InLoop == phase = "run" /\ LoopCondition

\* lw / sw through a negative offset from $fp: a local variable
AccessesLocal(inst) ==
    /\ inst[1] \in {"lw", "sw"}
    /\ inst[3][2] = "$fp"
    /\ Head(inst[3][1]) = "-"

\* what the history records of one executed instruction: the passages
\* through the exit of main, and the offsets from $fp of the local variables
\* read or written
Record(h, inst, at) ==
    [h EXCEPT !.returns = @ + (IF inst[1] = "j" /\ inst[2] = "main_exit" THEN 1 ELSE 0),
              !.entered = @ + (IF "main_exit" \in DOMAIN labels /\ at = labels["main_exit"]
                               THEN 1 ELSE 0),
              !.left    = @ + (IF "main_exit" \in DOMAIN labels /\ at = labels["main_exit"] + Len(Epilogue) - 1
                               THEN 1 ELSE 0),
              !.slots   = @ \cup (IF AccessesLocal(inst) THEN {ParseInt(inst[3][1])} ELSE {})]

\* the count of the loop, mutated: an executed instruction is not counted
CountNothing == iterations

\* iterations += 1
CountIteration == iterations + 1

\* one iteration of the loop of run: execute(inst), iterations += 1
RunExecute ==
    /\ InLoop /\ pc < Len(instructions)
    /\ LET s == Exec(CurSim, CurInst, data_strings, labels)
       IN  IF s.err = ""
           THEN /\ regs' = s.regs /\ memory' = s.memory /\ pc' = s.pc
                /\ running' = s.running /\ lohi' = s.lohi /\ out' = s.out
                /\ iterations' = CountIteration
                /\ hist' = Record(hist, CurInst, pc)
                /\ UNCHANGED <<phase, error>>
           ELSE /\ phase' = "fatal"
                /\ error' = s.err
                /\ UNCHANGED <<regs, memory, pc, running, lohi, out, iterations, hist>>
    /\ UNCHANGED <<code_, lexer_pos, tokens, pos_, ast, asm, cgvars, data_strings, labels, instructions>>

\* the break of the loop, mutated: taken one instruction early
RunBreakEarly ==
    /\ InLoop /\ pc >= Len(instructions) - 1
    /\ phase' = "done"
    /\ UNCHANGED <<error, code_, lexer_pos, tokens, pos_, ast, asm, cgvars, simvars>>

\* the break of the loop: pc is past the last instruction
RunBreak ==
    /\ InLoop /\ pc >= Len(instructions)
    /\ phase' = "done"
    /\ UNCHANGED <<error, code_, lexer_pos, tokens, pos_, ast, asm, cgvars, simvars>>

\* the loop condition fails: run returns
RunReturn ==
    /\ phase = "run" /\ ~LoopCondition
    /\ phase' = "done"
    /\ UNCHANGED <<error, code_, lexer_pos, tokens, pos_, ast, asm, cgvars, simvars>>

-----------------------------------------------------------------------------
(* The inputs: source programs (as the trees the parser builds of them,    *)
(* their literals scanned by the lexer) and assembly texts.                *)

MaxLoop == 3        \* the loop bounds N of the counting loop: 0..MaxLoop
MaxStrLen == 3      \* the length of the string contents
MaxDepth == 2       \* the nesting depth of the control constructs

\* the tree of a number written as text in the source
Num(text) == Number(NumberToken(text, 1))

\* the numeral of a small number
Numeral(n) == Str(Big(n))

\* numerals of 32-bit values: 0, 1, 5, 2^31 - 1, 2^31, 2^32 - 1
WordNumerals ==
    << <<"0">>, <<"1">>, <<"5">>,
       <<"2", "1", "4", "7", "4", "8", "3", "6", "4", "7">>,
       <<"2", "1", "4", "7", "4", "8", "3", "6", "4", "8">>,
       <<"4", "2", "9", "4", "9", "6", "7", "2", "9", "5">> >>

\* the constants returned by `return n;`
ReturnNumerals == WordNumerals \o << <<"4", "2">>, <<"0", "0", "7">> >>

BinOps == <<"+", "-", "*", "/", "%", "<", ">", "==", "!=", "<=", ">=">>

\* int main(){ return n; }
ReturnProgram(n) == << Function("main", << Return(Num(n)) >>) >>

\* int main(){ return a op b; }
BinOpProgram(op, a, b) == << Function("main", << Return(BinOp(op, Num(a), Num(b))) >>) >>

\* int main(){ int x = 0; while (x < N) { print_int(x); x = x + 1; } }
LoopProgram(n) ==
    << Function("main",
         << Declaration("x", Num(<<"0">>)),
            While(BinOp("<", Var("x"), Num(Numeral(n))),
                  << ExprStmt(Call("print_int", <<Var("x")>>)),
                     ExprStmt(Assign(Var("x"), BinOp("+", Var("x"), Num(<<"1">>)))) >>) >>) >>

\* the characters string contents are made of
ContentChars == {"h", " ", "#", "\n"}

Contents == UNION {[1..n -> ContentChars] : n \in 0..MaxStrLen}

\* the text of the literal of a content: newlines written as \n
RECURSIVE Escaped(_)
Escaped(content) ==
    IF content = <<>> THEN <<>>
    ELSE (IF Head(content) = "\n" THEN <<"\\", "n">> ELSE <<Head(content)>>)
         \o Escaped(Tail(content))

Literal(content) == <<"\"">> \o Escaped(content) \o <<"\"">>

\* int main(){ print_str(<literal>); }
StringProgram(literal) ==
    << Function("main",
         << ExprStmt(Call("print_str", <<String(StringToken(literal, 1))>>)) >>) >>

\* a control construct of the given kind that runs its body c times (c is 0
\* or 1), counting in the variable v
Construct(kind, v, c, body) ==
    CASE kind = "if" -> << If(Num(Numeral(c)), body, <<>>) >>
      [] kind = "ifelse" -> << If(Num(Numeral(1 - c)), <<>>, body) >>
      [] kind = "while" ->
            << Declaration(v, Num(<<"0">>)),
               While(BinOp("<", Var(v), Num(Numeral(c))),
                     << ExprStmt(PostOp("++", Var(v))) >> \o body) >>
      [] kind = "for" ->
            << For(Declaration(v, Num(<<"0">>)), BinOp("<", Var(v), Num(Numeral(c))),
                   PreOp("++", Var(v)), body) >>

Kinds == {"if", "ifelse", "while", "for"}

\* the constructs of kinds[1], kinds[2], ... nested in each other, the
\* innermost body being `return 7;`
RECURSIVE Nest(_, _, _)
Nest(kinds, counts, d) ==
    IF d > Len(kinds) THEN << Return(Num(<<"7">>)) >>
    ELSE Construct(kinds[d], "v" \o ToString(d), counts[d], Nest(kinds, counts, d + 1))

\* how often the bodies run: none, all once, or only the outermost
Counts(d) == {[i \in 1..d |-> 0], [i \in 1..d |-> 1], [i \in 1..d |-> IF i = 1 THEN 1 ELSE 0]}

\* int f(){ <nest> } int main(){ <nest> return 9; }
NestProgram(kinds, counts) ==
    << Function("f", Nest(kinds, counts, 1)),
       Function("main", Nest(kinds, counts, 1) \o << Return(Num(<<"9">>)) >>) >>

\* a program with no function called main
NoMainProgram == << Function("f", << Return(None) >>) >>

-----------------------------------------------------------------------------
(* Assembly texts given to the simulator as they are.                      *)

AsmValues == << <<"0">>, <<"5">>, <<"4", "2", "9", "4", "9", "6", "7", "2", "9", "5">> >>

\* the line  str0: .asciiz "hi"
HiLine == <<"TEXT", <<"s", "t", "r", "0", ":", " ", ".", "a", "s", "c", "i", "i", "z", " ",
                      "\"", "h", "i", "\"">>>>

\* the instructions tried after the common beginning of AsmProgram
Pool ==
    << <<"li", "$zero", <<"7">>>>,
       <<"la", "$zero", "str0">>,
       <<"move", "$zero", "$t0">>,
       <<"add", "$zero", "$t0", "$t1">>,
       <<"addi", "$zero", "$t0", <<"3">>>>,
       <<"sub", "$zero", "$t0", "$t1">>,
       <<"mul", "$zero", "$t0", "$t1">>,
       <<"mflo", "$zero">>,
       <<"mfhi", "$zero">>,
       <<"slt", "$zero", "$t1", "$t0">>,
       <<"sltu", "$zero", "$t1", "$t0">>,
       <<"and", "$zero", "$t0", "$t1">>,
       <<"andi", "$zero", "$t0", <<"7">>>>,
       <<"or", "$zero", "$t0", "$t1">>,
       <<"xori", "$zero", "$t0", <<"1">>>>,
       <<"lw", "$zero", <<<<"0">>, "$sp">>>>,
       <<"div", "$t0", "$t1">>,
       <<"div", "$t0", "$zero">>,
       <<"div", "$zero", "$t0">>,
       <<"la", "$a0", "str0">>,
       <<"la", "$a0", "nostr">>,
       <<"add", "$t4", "$t0", "$t1">>,
       <<"mul", "$t4", "$t0", "$t1">>,
       <<"add", "$t4", "$bad", "$t1">>,
       <<"lw", "$t4", <<<<"-", "4">>, "$zero">>>>,
       <<"sw", "$t1", <<<<"4">>, "$sp">>>>,
       <<"beq", "$t0", "$t1", "end">>,
       <<"bne", "$t0", "$t1", "end">>,
       <<"beq", "$t0", "$t1", "nowhere">>,
       <<"j", "end">>,
       <<"jal", "end">>,
       <<"jal", "nowhere">>,
       <<"jal", "print_int">>,
       <<"jal", "print_str">>,
       <<"jr", "$ra">>,
       <<"jr", "$t0">>,
       <<"nop">>,
       <<"syscall">>,
       <<"frob", "$nope", <<"1">>>>,
       <<"li", "$bad", <<"7">>>>,
       <<"move", "$bad", "$t0">>,
       <<"add", "$bad", "$t0", "$t1">>,
       <<"mflo", "$bad">>,
       <<"lw", "$bad", <<<<"0">>, "$sp">>>>,
       <<"lw", "$t4", <<<<"0">>, "$bad">>>>,
       <<"sw", "$bad", <<<<"0">>, "$sp">>>>,
       <<"sw", "$t1", <<<<"0">>, "$bad">>>>,
       <<"beq", "$bad", "$t1", "end">>,
       <<"jr", "$bad">>,
       <<"bne", "$t0", "$t1", "nowhere">>,
       <<"j", "nowhere">>,
       <<"sw", "$t1", <<<<"-", "4">>, "$zero">>>>,
       <<"sw", "$t1", <<<<"2">>, "$t0">>>> >>

\* main: li $t0, a / li $t1, b / li $t3, 3 / div $t0, $t3 / sw $t0, 0($sp) /
\* move $a0, $t1 / <inst> / move $t2, $zero / end: mflo $t5
AsmProgram(a, b, inst) ==
    << <<".data">>, HiLine, <<>>, <<".text">>, <<".globl", "main">>,
       <<"LABEL", "main", <<"li", "$t0", a>>>>,
       <<"li", "$t1", b>>,
       <<"li", "$t3", <<"3">>>>,
       <<"div", "$t0", "$t3">>,
       <<"sw", "$t0", <<<<"0">>, "$sp">>>>,
       <<"move", "$a0", "$t1">>,
       inst,
       <<"move", "$t2", "$zero">>,
       LabelLine("end"),
       <<"mflo", "$t5">> >>

-----------------------------------------------------------------------------
(* The initial state: CodeGen() and MIPSInterpreter() as constructed.      *)

\* the words stored and loaded by MemoryText: 0x12345678, 0xAABBCCDD, 2^32 - 1, 0
MemoryValues ==
    << <<"3", "0", "5", "4", "1", "9", "8", "9", "6">>,
       <<"2", "8", "6", "4", "4", "3", "4", "3", "9", "7">>,
       <<"4", "2", "9", "4", "9", "6", "7", "2", "9", "5">>,
       <<"0">> >>

\* a text that stores and loads words: at $sp, overlapping, and outside the
\* addresses of a 32-bit machine
MemoryText(v, w) ==
    << <<".text">>,
       <<"LABEL", "main", <<"li", "$t0", v>>>>,
       <<"li", "$t3", w>>,
       <<"lw", "$t7", <<<<"0">>, "$sp">>>>,
       <<"sw", "$t0", <<<<"0">>, "$sp">>>>,
       <<"lw", "$t1", <<<<"0">>, "$sp">>>>,
       <<"lw", "$t2", <<<<"8">>, "$sp">>>>,
       <<"sw", "$t3", <<<<"2">>, "$sp">>>>,
       <<"lw", "$t4", <<<<"0">>, "$sp">>>>,
       <<"lw", "$t5", <<<<"4">>, "$sp">>>>,
       <<"li", "$t6", <<"4", "2", "9", "4", "9", "6", "7", "2", "9", "4">>>>,
       <<"sw", "$t0", <<<<"0">>, "$t6">>>>,
       <<"lw", "$s0", <<<<"0">>, "$t6">>>>,
       <<"sw", "$t3", <<<<"-", "4">>, "$zero">>>>,
       <<"lw", "$s1", <<<<"-", "4">>, "$zero">>>> >>

\* a text that calls the builtins and a subroutine of its own, and defines
\* labels with the names of the builtins
CallText(a) ==
    << <<".data">>, HiLine, <<".text">>,
       <<"LABEL", "main", <<"li", "$a0", a>>>>,
       <<"jal", "print_int">>,
       <<"jal", "sub">>,
       <<"la", "$a0", "str0">>,
       <<"jal", "print_str">>,
       <<"j", "fin">>,
       <<"LABEL", "print_int", <<"li", "$t9", <<"1">>>>>>,
       <<"LABEL", "print_str", <<"li", "$t9", <<"2">>>>>>,
       <<"LABEL", "sub", <<"addi", "$a0", "$a0", <<"1">>>>>>,
       <<"jr", "$ra">>,
       <<"LABEL", "fin", <<"nop">>>> >>

\* int f(int a) { return; }
\* int main() { int x = 1 + 2 * 3; int y; y = x;
\*              if (x < 7) { print_int(x); } else print_int(y); return 0; }
BranchTokens ==
    << Token("KEYWORD", "int"), Token("IDENT", "f"), Token("PUNCT", "("),
       Token("KEYWORD", "int"), Token("IDENT", "a"), Token("PUNCT", ")"),
       Token("PUNCT", "{"), Token("KEYWORD", "return"), Token("PUNCT", ";"),
       Token("PUNCT", "}"), Token("KEYWORD", "int"), Token("IDENT", "main"),
       Token("PUNCT", "("), Token("PUNCT", ")"), Token("PUNCT", "{"),
       Token("KEYWORD", "int"), Token("IDENT", "x"), Token("OP", "="),
       Token("NUMBER", Big(1)), Token("OP", "+"), Token("NUMBER", Big(2)),
       Token("OP", "*"), Token("NUMBER", Big(3)), Token("PUNCT", ";"),
       Token("KEYWORD", "int"), Token("IDENT", "y"), Token("PUNCT", ";"),
       Token("IDENT", "y"), Token("OP", "="), Token("IDENT", "x"), Token("PUNCT", ";"),
       Token("KEYWORD", "if"), Token("PUNCT", "("), Token("IDENT", "x"),
       Token("OP", "<"), Token("NUMBER", Big(7)), Token("PUNCT", ")"),
       Token("PUNCT", "{"), Token("IDENT", "print_int"), Token("PUNCT", "("),
       Token("IDENT", "x"), Token("PUNCT", ")"), Token("PUNCT", ";"),
       Token("PUNCT", "}"), Token("KEYWORD", "else"), Token("IDENT", "print_int"),
       Token("PUNCT", "("), Token("IDENT", "y"), Token("PUNCT", ")"),
       Token("PUNCT", ";"), Token("KEYWORD", "return"), Token("NUMBER", Big(0)),
       Token("PUNCT", ";"), Token("PUNCT", "}") >>

\* void g() { int a; for (;;) --a; for (int j = 0; j != 3; ++j) a = a - (j / 2) % 2;
\*            while (a >= 0) { a--; } print_str("hi"); h(a, 1); h(); return a == 3; }
\* int main() { return 0; }
LoopTokens ==
    << Token("KEYWORD", "void"), Token("IDENT", "g"), Token("PUNCT", "("),
       Token("PUNCT", ")"), Token("PUNCT", "{"), Token("KEYWORD", "int"),
       Token("IDENT", "a"), Token("PUNCT", ";"), Token("KEYWORD", "for"),
       Token("PUNCT", "("), Token("PUNCT", ";"), Token("PUNCT", ";"),
       Token("PUNCT", ")"), Token("OP", "--"), Token("IDENT", "a"),
       Token("PUNCT", ";"), Token("KEYWORD", "for"), Token("PUNCT", "("),
       Token("KEYWORD", "int"), Token("IDENT", "j"), Token("OP", "="),
       Token("NUMBER", Big(0)), Token("PUNCT", ";"), Token("IDENT", "j"),
       Token("OP", "!="), Token("NUMBER", Big(3)), Token("PUNCT", ";"),
       Token("OP", "++"), Token("IDENT", "j"), Token("PUNCT", ")"),
       Token("IDENT", "a"), Token("OP", "="), Token("IDENT", "a"), Token("OP", "-"),
       Token("PUNCT", "("), Token("IDENT", "j"), Token("OP", "/"),
       Token("NUMBER", Big(2)), Token("PUNCT", ")"), Token("OP", "%"),
       Token("NUMBER", Big(2)), Token("PUNCT", ";"), Token("KEYWORD", "while"),
       Token("PUNCT", "("), Token("IDENT", "a"), Token("OP", ">="),
       Token("NUMBER", Big(0)), Token("PUNCT", ")"), Token("PUNCT", "{"),
       Token("IDENT", "a"), Token("OP", "--"), Token("PUNCT", ";"),
       Token("PUNCT", "}"), Token("IDENT", "print_str"), Token("PUNCT", "("),
       Token("STRING", <<"h", "i">>), Token("PUNCT", ")"), Token("PUNCT", ";"),
       Token("IDENT", "h"), Token("PUNCT", "("), Token("IDENT", "a"),
       Token("PUNCT", ","), Token("NUMBER", Big(1)), Token("PUNCT", ")"),
       Token("PUNCT", ";"), Token("IDENT", "h"), Token("PUNCT", "("),
       Token("PUNCT", ")"), Token("PUNCT", ";"), Token("KEYWORD", "return"),
       Token("IDENT", "a"), Token("OP", "=="), Token("NUMBER", Big(3)),
       Token("PUNCT", ";"), Token("PUNCT", "}"), Token("KEYWORD", "int"),
       Token("IDENT", "main"), Token("PUNCT", "("), Token("PUNCT", ")"),
       Token("PUNCT", "{"), Token("KEYWORD", "return"), Token("NUMBER", Big(0)),
       Token("PUNCT", ";"), Token("PUNCT", "}") >>

\* token sequences with a token out of place:
\*   main() { }
\*   int main { }
\*   int main() { return ); }
\*   int main() { else; }
\*   int main() { x = * 2; }
\*   if main(5 +) { }
\*   int main() { int 5; }
\*   int main() { f(1 2); }
BadTokens ==
    << <<Token("IDENT", "main"), Token("PUNCT", "("), Token("PUNCT", ")"), Token("PUNCT", "{"), Token("PUNCT", "}")>>,
       <<Token("KEYWORD", "int"), Token("IDENT", "main"), Token("PUNCT", "{"), Token("PUNCT", "}")>>,
       <<Token("KEYWORD", "int"), Token("IDENT", "main"), Token("PUNCT", "("), Token("PUNCT", ")"), Token("PUNCT", "{"), Token("KEYWORD", "return"), Token("PUNCT", ")"), Token("PUNCT", ";"), Token("PUNCT", "}")>>,
       <<Token("KEYWORD", "int"), Token("IDENT", "main"), Token("PUNCT", "("), Token("PUNCT", ")"), Token("PUNCT", "{"), Token("KEYWORD", "else"), Token("PUNCT", ";"), Token("PUNCT", "}")>>,
       <<Token("KEYWORD", "int"), Token("IDENT", "main"), Token("PUNCT", "("), Token("PUNCT", ")"), Token("PUNCT", "{"), Token("IDENT", "x"), Token("OP", "="), Token("OP", "*"), Token("NUMBER", Big(2)), Token("PUNCT", ";"), Token("PUNCT", "}")>>,
       <<Token("KEYWORD", "if"), Token("IDENT", "main"), Token("PUNCT", "("), Token("NUMBER", Big(5)), Token("OP", "+"), Token("PUNCT", ")"), Token("PUNCT", "{"), Token("PUNCT", "}")>>,
       <<Token("KEYWORD", "int"), Token("IDENT", "main"), Token("PUNCT", "("), Token("PUNCT", ")"), Token("PUNCT", "{"), Token("KEYWORD", "int"), Token("NUMBER", Big(5)), Token("PUNCT", ";"), Token("PUNCT", "}")>>,
       <<Token("KEYWORD", "int"), Token("IDENT", "main"), Token("PUNCT", "("), Token("PUNCT", ")"), Token("PUNCT", "{"), Token("IDENT", "f"), Token("PUNCT", "("), Token("NUMBER", Big(1)), Token("NUMBER", Big(2)), Token("PUNCT", ")"), Token("PUNCT", ";"), Token("PUNCT", "}")>> >>

TokenPrograms == <<BranchTokens, LoopTokens>>

\* a source text that uses a keyword, an identifier, a number, a string, a
\* comment and a two-character operator:
\*   int main() {
\*     int _x1 = 3; // three
\*     print_str("hi");
\*     return 7 >= _x1;
\*   }
MainSource ==
    << "i", "n", "t", " ", "m", "a", "i", "n", "(", ")", " ", "{", "\n",
       " ", " ", "i", "n", "t", " ", "_", "x", "1", " ", "=", " ", "3", ";", " ", "/", "/", " ", "t", "h", "r", "e", "e", "\n",
       " ", " ", "p", "r", "i", "n", "t", "_", "s", "t", "r", "(", "\"", "h", "i", "\"", ")", ";", "\n",
       " ", " ", "r", "e", "t", "u", "r", "n", " ", "7", " ", ">", "=", " ", "_", "x", "1", ";", "\n",
       "}", "\n" >>

\* tree: the expression the tokens were written from (history), None if none
ConstructedFrom(tree) ==
    /\ error = ""
    /\ work = <<>> /\ output = <<>> /\ data = <<>>
    /\ label_count = 0 /\ string_count = 0
    /\ vars_ = <<>> /\ stack_offset = 0
    /\ regs = [i \in 1..32 |-> Zero]
    /\ memory = <<>> /\ data_strings = <<>> /\ labels = <<>>
    /\ pc = 0 /\ instructions = <<>> /\ running = TRUE
    /\ lohi = <<>> /\ iterations = 0 /\ out = <<>>
    /\ hist = [returns |-> 0, entered |-> 0, left |-> 0, loops |-> 0, tree |-> tree, spans |-> <<>>,
               slots |-> {}]

Constructed == ConstructedFrom(None)

\* the compiler is given the tree of a source program
Compile(program) ==
    /\ Constructed
    /\ phase = "gen" /\ ast = program /\ todo = program /\ asm = <<>>
    /\ code_ = <<>> /\ lexer_pos = 0 /\ tokens = <<>> /\ pos_ = 0

\* the compiler is given the tokens of a source text
Tokenized(toks) ==
    /\ Constructed
    /\ phase = "parse" /\ tokens = toks /\ pos_ = 0
    /\ code_ = <<>> /\ lexer_pos = 0
    /\ ast = <<>> /\ todo = <<>> /\ asm = <<>>

\* the compiler is given a source text
Source(text) ==
    /\ Constructed
    /\ phase = "lex" /\ code_ = text /\ lexer_pos = 0 /\ tokens = <<>> /\ pos_ = 0
    /\ ast = <<>> /\ todo = <<>> /\ asm = <<>>

\* the simulator is given an assembly text
Simulate(lines) ==
    /\ Constructed
    /\ phase = "asm" /\ ast = <<>> /\ todo = <<>> /\ asm = lines
    /\ code_ = <<>> /\ lexer_pos = 0 /\ tokens = <<>> /\ pos_ = 0

Init ==
    \/ \E n \in DOMAIN ReturnNumerals : Compile(ReturnProgram(ReturnNumerals[n]))
    \/ \E o \in DOMAIN BinOps, a, b \in DOMAIN WordNumerals :
          Compile(BinOpProgram(BinOps[o], WordNumerals[a], WordNumerals[b]))
    \/ \E n \in 0..MaxLoop : Compile(LoopProgram(n))
    \/ \E c \in Contents : Compile(StringProgram(Literal(c)))
    \/ \E d \in 1..MaxDepth : \E kinds \in [1..d -> Kinds], counts \in Counts(d) :
          Compile(NestProgram(kinds, counts))
    \/ Compile(NoMainProgram)
    \/ \E a, b \in DOMAIN AsmValues, i \in DOMAIN Pool :
          Simulate(AsmProgram(AsmValues[a], AsmValues[b], Pool[i]))
    \/ \E v, w \in DOMAIN MemoryValues : Simulate(MemoryText(MemoryValues[v], MemoryValues[w]))
    \/ \E a \in DOMAIN WordNumerals : Simulate(CallText(WordNumerals[a]))
    \/ \E k \in DOMAIN TokenPrograms : \E n \in 0..Len(TokenPrograms[k]) :
          Tokenized(SubSeq(TokenPrograms[k], 1, n))
    \/ \E k \in DOMAIN BadTokens : Tokenized(BadTokens[k])
    \/ Source(MainSource)

Next ==
    \/ Tokenize
    \/ Parse
    \/ GenFunction
    \/ GenStmt
    \/ GenResume
    \/ Generate
    \/ Load
    \/ Run
    \/ RunExecute
    \/ RunBreak
    \/ RunReturn

Spec == Init /\ [][Next]_vars

-----------------------------------------------------------------------------
(* Runs that meet the instruction budget.                                  *)

\* int main(){ int x = 0; while (x < n) { x = x + 1; } return 0; }
CountingProgram(n) ==
    << Function("main",
         << Declaration("x", Num(<<"0">>)),
            While(BinOp("<", Var("x"), Num(n)),
                  << ExprStmt(Assign(Var("x"), BinOp("+", Var("x"), Num(<<"1">>)))) >>),
            Return(Num(<<"0">>)) >>) >>

\* CountingProgram(n) executes 19 instructions per iteration and 19 more up
\* to and including the `j main_exit` of its return: with this n the jump
\* is executed and the budget ends the run inside the epilogue
BudgetCount == Str(Big((max_iter - 22) \div 19))

InitBudget ==
    \/ Compile(CountingProgram(BudgetCount))
    \/ \E d \in 1..MaxDepth : \E kinds \in [1..d -> Kinds], counts \in Counts(d) :
          Compile(NestProgram(kinds, counts))
    \/ \E i \in DOMAIN Pool : Simulate(AsmProgram(AsmValues[2], AsmValues[1], Pool[i]))
    \/ Tokenized(BranchTokens)
    \/ Source(MainSource)

SpecBudget == InitBudget /\ [][Next]_vars

-----------------------------------------------------------------------------
(* Programs that never end by themselves.                                  *)

\* main: j main
ForeverText == << <<".text">>, <<"LABEL", "main", <<"j", "main">>>> >>

InitRunaway ==
    \/ Simulate(ForeverText)
    \/ \E kinds \in [1..1 -> Kinds], counts \in Counts(1) : Compile(NestProgram(kinds, counts))
    \/ Compile(NoMainProgram)
    \/ \E i \in DOMAIN Pool : Simulate(AsmProgram(AsmValues[2], AsmValues[1], Pool[i]))
    \/ Tokenized(BranchTokens)
    \/ Source(MainSource)

SpecRunaway == InitRunaway /\ [][Next]_vars

-----------------------------------------------------------------------------
(* The front end alone: expressions written out as tokens.                 *)

MaxOperators == 3   \* the number of binary operators of an expression
MaxCodeLen == 3     \* the length of the short source texts

\* the characters of the short source texts: of an identifier, of a number,
\* whitespace, of a string literal, of a comment and of an operator, and one
\* that is none of these
CodeChars == {"n", "7", " ", "\n", "\"", "\\", "/", "=", "@", ";"}

Texts == UNION {[1..n -> CodeChars] : n \in 0..MaxCodeLen}

\* the operators the expressions are built of: one or two of every level
ExprOps == {"=", "<", "-", "*"}

LeafNames == <<"a", "b", "c", "d", "e", "f">>

LeafKinds == <<"Var", "Number", "PreOp", "PostOp">>

\* the leaf at position i of an expression
Leaf(i) ==
    LET kind == LeafKinds[((i - 1) % 4) + 1]
    IN  CASE kind = "Var"    -> Var(LeafNames[i])
          [] kind = "Number" -> Number(Big(i))
          [] kind = "PreOp"  -> PreOp("++", Var(LeafNames[i]))
          [] kind = "PostOp" -> PostOp("--", Var(LeafNames[i]))

Node(op, left, right) == IF op = "=" THEN Assign(left, right) ELSE BinOp(op, left, right)

\* the expressions of n binary operators whose leaves are at positions
\* first, first + 1, ... from left to right
RECURSIVE Expressions(_, _)
Expressions(n, first) ==
    IF n = 0 THEN {Leaf(first)}
    ELSE UNION {{Node(op, left, right) :
                    op \in ExprOps,
                    left \in Expressions(i, first),
                    right \in Expressions(n - 1 - i, first + i + 1)} : i \in 0..(n - 1)}

\* a prefix and a postfix operator on the same operand
Combined(e) == e.type = "PreOp" /\ e.operand.type = "PostOp"

CombinedExpressions ==
    {PreOp(p, PostOp(q, Var("a"))) : p, q \in {"++", "--"}}
    \cup {BinOp("*", Var("a"), PreOp("++", PostOp("++", Var("b"))))}

\* the precedence of an expression: assignment, comparison, additive,
\* multiplicative, prefix, primary, postfix
Precedence(e) ==
    CASE e.type = "Assign" -> 0
      [] e.type = "BinOp" ->
            (CASE e.op \in {"<", ">", "==", "!=", "<=", ">="} -> 1
               [] e.op \in {"+", "-"} -> 2
               [] e.op \in {"*", "/", "%"} -> 3)
      [] e.type = "PreOp" -> 4
      [] e.type = "PostOp" -> 6
      [] OTHER -> 5

\* the tokens of the expression e written where an operand of precedence
\* least or more is expected: in parentheses if its own is lower
RECURSIVE Written(_, _)
Written(e, least) ==
    LET body ==
          CASE e.type = "Assign" ->
                  Written(e.left, 1) \o <<Token("OP", "=")>> \o Written(e.right, 0)
            [] e.type = "BinOp" ->
                  Written(e.left, Precedence(e)) \o <<Token("OP", e.op)>>
                  \o Written(e.right, Precedence(e) + 1)
            [] e.type = "PreOp" -> <<Token("OP", e.op)>> \o Written(e.operand, 4)
            [] e.type = "PostOp" -> Written(e.operand, 5) \o <<Token("OP", e.op)>>
            [] e.type = "Var" -> <<Token("IDENT", e.name)>>
            [] e.type = "Number" -> <<Token("NUMBER", e.value)>>
    IN  IF Precedence(e) < least
        THEN <<Token("PUNCT", "(")>> \o body \o <<Token("PUNCT", ")")>>
        ELSE body

\* int name;
DeclarationTokens(name) ==
    <<Token("KEYWORD", "int"), Token("IDENT", name), Token("PUNCT", ";")>>

\* void g() { int a; ... int f; <e>; }
ExpressionTokens(e) ==
    <<Token("KEYWORD", "void"), Token("IDENT", "g"), Token("PUNCT", "("), Token("PUNCT", ")"),
      Token("PUNCT", "{")>>
    \o DeclarationTokens("a") \o DeclarationTokens("b") \o DeclarationTokens("c")
    \o DeclarationTokens("d") \o DeclarationTokens("e") \o DeclarationTokens("f")
    \o Written(e, 0) \o <<Token("PUNCT", ";"), Token("PUNCT", "}")>>

\* the tree of ExpressionTokens(e) when <e> is read as e
ExpressionProgram(e) ==
    << Function("g", [i \in 1..6 |-> Declaration(LeafNames[i], None)] \o <<ExprStmt(e)>>) >>

\* the compiler is given the tokens of an expression
Expression(e) ==
    /\ ConstructedFrom(e)
    /\ phase = "parse" /\ tokens = ExpressionTokens(e) /\ pos_ = 0
    /\ code_ = <<>> /\ lexer_pos = 0
    /\ ast = <<>> /\ todo = <<>> /\ asm = <<>>

InitFront ==
    \/ \E n \in 0..MaxOperators : \E e \in Expressions(n, 1) : Expression(e)
    \/ \E e \in CombinedExpressions : Expression(e)
    \/ \E text \in Texts : Source(text)
    \/ Source(MainSource)
    \/ Tokenized(BranchTokens)
    \/ \E i \in DOMAIN Pool : Simulate(AsmProgram(AsmValues[2], AsmValues[1], Pool[i]))

SpecFront == InitFront /\ [][Next]_vars

-----------------------------------------------------------------------------
(* Arithmetic on local variables.                                          *)

ArithmeticOps == {"+", "-", "*"}

\* int a = 4294967295; int b = 70000;
ValueOfA == <<"4", "2", "9", "4", "9", "6", "7", "2", "9", "5">>
ValueOfB == <<"7", "0", "0", "0", "0">>

\* the leaf at position i of an arithmetic expression: a, 3, b, a, 3, ...
Operand(i) ==
    CASE i % 3 = 1 -> Var("a")
      [] i % 3 = 2 -> Num(<<"3">>)
      [] i % 3 = 0 -> Var("b")

\* the expressions of n operators +, -, * whose leaves are at positions
\* first, first + 1, ... from left to right
RECURSIVE Arithmetic(_, _)
Arithmetic(n, first) ==
    IF n = 0 THEN {Operand(first)}
    ELSE UNION {{BinOp(op, left, right) :
                    op \in ArithmeticOps,
                    left \in Arithmetic(i, first),
                    right \in Arithmetic(n - 1 - i, first + i + 1)} : i \in 0..(n - 1)}

\* a construct whose body, which declares z, runs no time
Unrun(kind) ==
    CASE kind = "none"  -> <<>>
      [] kind = "if"    -> << If(Num(<<"0">>), << Declaration("z", None) >>, <<>>) >>
      [] kind = "while" -> << While(Num(<<"0">>), << Declaration("z", None) >>) >>

\* int main() { <construct> int a = 4294967295; int b = 70000; return <e>; }
FrameProgram(kind, e) ==
    << Function("main",
          Unrun(kind)
          \o << Declaration("a", Num(ValueOfA)), Declaration("b", Num(ValueOfB)), Return(e) >>) >>

\* the compiler is given the tree of a program that returns an expression
Frame(kind, e) ==
    /\ ConstructedFrom(e)
    /\ phase = "gen" /\ ast = FrameProgram(kind, e) /\ todo = ast /\ asm = <<>>
    /\ code_ = <<>> /\ lexer_pos = 0 /\ tokens = <<>> /\ pos_ = 0

\* the contents of the string literals kept in local variables
StringContents == {<<"a">>, <<"b">>, <<"h", "i">>}

\* int main(){ int s = "<first>"; int t = "<second>"; print_str(s); return 0; }
TwoStringsProgram(first, second) ==
    << Function("main",
         << Declaration("s", String(first)), Declaration("t", String(second)),
            ExprStmt(Call("print_str", <<Var("s")>>)), Return(Num(<<"0">>)) >>) >>

InitFrame ==
    \/ \E n \in 0..MaxOperators, kind \in {"none", "if", "while"} :
          \E e \in Arithmetic(n, 1) : Frame(kind, e)
    \/ \E kinds \in [1..1 -> Kinds], counts \in Counts(1) : Compile(NestProgram(kinds, counts))
    \/ \E first \in StringContents, second \in StringContents :
          Compile(TwoStringsProgram(first, second))
    \/ \E n \in 0..MaxLoop : Compile(LoopProgram(n))
    \/ \E i \in DOMAIN Pool : Simulate(AsmProgram(AsmValues[2], AsmValues[1], Pool[i]))
    \/ Tokenized(BranchTokens)
    \/ Source(MainSource)

SpecFrame == InitFrame /\ [][Next]_vars

-----------------------------------------------------------------------------
(* Assembly given as text.                                                 *)

MaxTextLines == 3

\* the lines a text section is made of:
\*   1  `li $a0, 1`
\*   2  `  li $a0, 2   # two`
\*   3  `li $a0, 3 # note: three`
\*   4  `next: jal print_int`
\*   5  `jal print_int # then: more`
\*   6  `# comment: only`
\*   7  `end:`
\*   8  `last: # done`
\*   9  `.align 2`
TextLineChoices ==
    << <<"l", "i", " ", "$", "a", "0", ",", " ", "1">>,
       <<" ", " ", "l", "i", " ", "$", "a", "0", ",", " ", "2", " ", " ", " ", "#", " ", "t", "w", "o">>,
       <<"l", "i", " ", "$", "a", "0", ",", " ", "3", " ", "#", " ", "n", "o", "t", "e", ":", " ", "t", "h", "r", "e", "e">>,
       <<"n", "e", "x", "t", ":", " ", "j", "a", "l", " ", "p", "r", "i", "n", "t", "_", "i", "n", "t">>,
       <<"j", "a", "l", " ", "p", "r", "i", "n", "t", "_", "i", "n", "t", " ", "#", " ", "t", "h", "e", "n", ":", " ", "m", "o", "r", "e">>,
       <<"#", " ", "c", "o", "m", "m", "e", "n", "t", ":", " ", "o", "n", "l", "y">>,
       <<"e", "n", "d", ":">>,
       <<"l", "a", "s", "t", ":", " ", "#", " ", "d", "o", "n", "e">>,
       <<".", "a", "l", "i", "g", "n", " ", "2">> >>

\* .text / main: / the chosen lines / jr $ra, each line as text
TextProgram(choice) ==
    << <<".text">>, <<"TEXT", <<"m", "a", "i", "n", ":">>>> >>
    \o [k \in 1..Len(choice) |-> <<"TEXT", TextLineChoices[choice[k]]>>]
    \o << <<"TEXT", <<" ", " ", " ", " ", "j", "r", " ", "$", "r", "a">>>> >>

InitText ==
    \/ \E n \in 0..MaxTextLines : \E choice \in [1..n -> DOMAIN TextLineChoices] :
          Simulate(TextProgram(choice))
    \/ \E i \in DOMAIN Pool : Simulate(AsmProgram(AsmValues[2], AsmValues[1], Pool[i]))
    \/ Tokenized(BranchTokens)
    \/ Source(MainSource)

SpecText == InitText /\ [][Next]_vars

-----------------------------------------------------------------------------
(* The simulator's registers and errors.                                   *)

\* the opcodes whose first operand is the destination register
DestOps ==
    {"li", "la", "move", "add", "addi", "sub", "mul", "mflo", "mfhi", "slt", "sltu",
     "and", "andi", "or", "xori", "lw"}

\* the next iteration executes an instruction whose destination is $zero
WritesZero == InLoop /\ pc < Len(instructions) /\ CurInst[1] \in DestOps /\ CurInst[2] = "$zero"

\* C1: in every state slot 0 of the register file holds 0 and $zero reads
\* 0, and executing an instruction whose destination is $zero changes no
\* register.
C1_ZeroRegister ==
    /\ [](regs[RegIdx("$zero") + 1] = Zero /\ GetReg(regs, "$zero") = Zero)
    /\ [][WritesZero => regs' = regs]_vars

\* `add $zero, $t0, $t1` has just been executed with a sum that is not 0
C1_Witness ==
    /\ phase = "run" /\ iterations > 0 /\ pc >= 1 /\ pc <= Len(instructions)
    /\ instructions[pc][1] = "add" /\ instructions[pc][2] = "$zero"
    /\ GetReg(regs, "$t0") # Zero /\ GetReg(regs, "$t1") = Zero
    /\ GetReg(regs, "$zero") = Zero

\* the next iteration executes `div rs, rt` with the value of rt equal to 0
DivByZero ==
    /\ InLoop /\ pc < Len(instructions) /\ CurInst[1] = "div"
    /\ KnownReg(CurInst[2]) /\ KnownReg(CurInst[3])
    /\ GetReg(regs, CurInst[3]) = Zero

\* C2: executing `div rs, rt` with rt equal to 0 ends the run with the
\* error "Division by zero"; registers, memory, lo/hi and pc stay as they
\* were, and nothing is executed after a fatal error.
C2_DivisionByZeroFatal ==
    [][/\ DivByZero => /\ phase' = "fatal" /\ error' = "Division by zero"
                       /\ UNCHANGED <<regs, memory, lohi, pc, iterations, out>>
       /\ phase = "fatal" => FALSE]_vars

\* a run aborted by `div $t0, $t1` with $t0 = 5 and $t1 = 0
C2_Witness ==
    /\ phase = "fatal" /\ error = "Division by zero"
    /\ GetReg(regs, "$t0") # Zero /\ GetReg(regs, "$t1") = Zero
    /\ instructions[pc + 1] = <<"div", "$t0", "$t1">>

-----------------------------------------------------------------------------
(* The generated text.                                                     *)

\* the number of if, while and for statements in a list of statements
RECURSIVE Constructs(_)
Constructs(stmts) ==
    IF stmts = <<>> THEN 0
    ELSE LET stmt == Head(stmts)
         IN  (CASE stmt.type = "If" -> 1 + Constructs(stmt.then) + Constructs(stmt.else)
                [] stmt.type \in {"While", "For"} -> 1 + Constructs(stmt.body)
                [] OTHER -> 0)
             + Constructs(Tail(stmts))

\* the number of control constructs of the functions k.. of the program
RECURSIVE ProgramConstructs(_)
ProgramConstructs(k) ==
    IF k > Len(ast) THEN 0 ELSE Constructs(ast[k].body) + ProgramConstructs(k + 1)

\* the entry and exit labels of the functions of the program
FunctionLabels == {ast[k].name : k \in DOMAIN ast} \cup {ExitLabel(ast[k].name) : k \in DOMAIN ast}

IsControlLabel(line) == LineKind(line) = "LABEL" /\ line[2] \notin FunctionLabels

\* the lines of the generated text that define a control label
ControlLabelLines == SelectSeq(output, IsControlLabel)

\* C3: when generate is done with a program of N control constructs, the
\* text defines exactly 2N control labels and no two of them are the same;
\* and no step of the generator decreases the label counter.
C3_LabelUniqueness ==
    /\ [](phase = "asm" /\ ast # <<>> =>
            /\ Len(ControlLabelLines) = 2 * ProgramConstructs(1)
            /\ Cardinality({ControlLabelLines[k][2] : k \in DOMAIN ControlLabelLines})
                  = 2 * ProgramConstructs(1))
    /\ [][label_count' >= label_count]_vars

\* a generated program with constructs nested in each other in two functions
C3_Witness ==
    /\ phase = "asm" /\ Len(ast) = 2
    /\ ProgramConstructs(1) = 2 * MaxDepth
    /\ label_count = 4 * MaxDepth
    /\ Len(ControlLabelLines) = 4 * MaxDepth

\* the program is `int main(){ return a op b; }`
IsBinOpProgram ==
    /\ Len(ast) = 1 /\ Len(ast[1].body) = 1
    /\ ast[1].body[1].type = "Return" /\ ast[1].body[1].value.type = "BinOp"

RelOps == {"<", ">", "==", "!=", "<=", ">="}

\* the relation op between a and b read as signed 32-bit integers
Holds(op, a, b) ==
    LET x == Signed(a)
        y == Signed(b)
    IN  CASE op = "<"  -> BigLt(x, y)
          [] op = ">"  -> BigLt(y, x)
          [] op = "==" -> x = y
          [] op = "!=" -> x # y
          [] op = "<=" -> ~BigLt(y, x)
          [] op = ">=" -> ~BigLt(x, y)

\* C4: after the run of `return a op b` with a relational op, $t0 (and the
\* returned $v0) hold 1 when the relation holds between a and b as signed
\* 32-bit integers, and 0 otherwise.
C4_RelationalLowering ==
    phase = "done" /\ IsBinOpProgram /\ ast[1].body[1].value.op \in RelOps =>
        LET e == ast[1].body[1].value
            r == IF Holds(e.op, e.left.value, e.right.value) THEN <<0, 1>> ELSE Zero
        IN  GetReg(regs, "$t0") = r /\ GetReg(regs, "$v0") = r

\* -1 < 1 has been found to hold: a - b leaves the signed range nowhere,
\* but the operands differ in sign
C4_Witness ==
    /\ phase = "done" /\ IsBinOpProgram
    /\ ast[1].body[1].value.op = "<"
    /\ ast[1].body[1].value.left.value = <<65535, 65535>>
    /\ ast[1].body[1].value.right.value = <<0, 1>>
    /\ GetReg(regs, "$t0") = <<0, 1>>

\* the function whose code line i of the generated text belongs to
Holder(i) ==
    LET entries == {j \in 1..i : /\ LineKind(output[j]) = "LABEL"
                                 /\ output[j][2] \in {ast[k].name : k \in DOMAIN ast}}
    IN  output[Max(entries)][2]

\* line i is the jump of a return statement: a jump to no control label
IsReturnJump(i) ==
    /\ LineKind(output[i]) = "j"
    /\ output[i][2] \notin {ControlLabelLines[k][2] : k \in DOMAIN ControlLabelLines}

\* C5: every return statement of a function F is lowered to a jump to
\* F_exit, the exit label of the function that holds the return.
C5_ReturnJumpsToOwnExit ==
    phase = "asm" /\ ast # <<>> =>
        \A i \in DOMAIN output : IsReturnJump(i) => output[i][2] = ExitLabel(Holder(i))

-----------------------------------------------------------------------------
(* Runs of compiled programs.                                              *)

\* the run has executed the epilogue of main once, from its first to its
\* last instruction, and has ended in its `jr $ra` with $ra = 0, $sp and
\* $fp being what they were on entry to main
EpilogueDone ==
    /\ hist.entered = 1 /\ hist.left = 1
    /\ GetReg(regs, "$sp") = InitialSp /\ GetReg(regs, "$fp") = Zero
    /\ ~running /\ GetReg(regs, "$ra") = Zero
    /\ pc < Len(instructions) /\ CurInst = <<"jr", "$ra">>

\* C6, as claimed: a run of a compiled main that has executed a return
\* statement has executed the epilogue of main exactly once, has $sp and
\* $fp restored, and has ended through `jr $ra` with $ra = 0.
C6_EpilogueOnce ==
    phase = "done" /\ hist.returns >= 1 => EpilogueDone

\* C6, amended: the same of every run that the instruction budget has not
\* stopped.
C6_EpilogueOnceWithinBudget ==
    phase = "done" /\ hist.returns >= 1 /\ ~(running /\ iterations >= max_iter) => EpilogueDone

\* a return nested MaxDepth deep has been executed and the run has ended
C6_Witness ==
    /\ phase = "done" /\ hist.returns = 1 /\ EpilogueDone
    /\ Len(ast) = 2 /\ Constructs(ast[2].body) = MaxDepth
    /\ GetReg(regs, "$v0") = <<0, 7>>

\* the program is `int main(){ return n; }`
IsReturnProgram ==
    /\ Len(ast) = 1 /\ Len(ast[1].body) = 1
    /\ ast[1].body[1].type = "Return" /\ ast[1].body[1].value.type = "Number"

\* C7: `int main(){ return n; }` compiles and runs without error, and its
\* run ends through `jr $ra` with $ra = 0, with $v0 = n and nothing
\* printed.
C7_ReturnValue ==
    IsReturnProgram =>
        /\ phase # "fatal"
        /\ phase = "done" =>
              /\ ~running
              /\ GetReg(regs, "$v0") = ast[1].body[1].value.value
              /\ out = <<>>

\* `return 4294967295` has run
C7_Witness ==
    /\ phase = "done" /\ IsReturnProgram /\ ~running
    /\ ast[1].body[1].value.value = <<65535, 65535>>
    /\ GetReg(regs, "$v0") = <<65535, 65535>>

\* the program is the counting loop that prints x
IsLoopProgram ==
    /\ Len(ast) = 1 /\ Len(ast[1].body) = 2
    /\ ast[1].body[1].type = "Declaration" /\ ast[1].body[2].type = "While"
    /\ Len(ast[1].body[2].body) = 2
    /\ ast[1].body[2].body[1].expr.type = "Call"

\* the decimal renderings of 0, 1, ..., n - 1 one after the other
RECURSIVE Renderings(_)
Renderings(n) == IF n = 0 THEN <<>> ELSE Renderings(n - 1) \o Str(Big(n - 1))

\* C8: the counting loop with bound N runs without error, prints the
\* renderings of 0 .. N-1 with nothing between them, and ends through
\* `jr $ra` with $ra = 0.
C8_LoopOutput ==
    IsLoopProgram =>
        /\ phase # "fatal"
        /\ phase = "done" =>
              /\ out = Renderings(ast[1].body[2].condition.right.value[2])
              /\ ~running

\* the loop with the largest bound has run
C8_Witness ==
    /\ phase = "done" /\ IsLoopProgram /\ ~running
    /\ ast[1].body[2].condition.right.value = Big(MaxLoop)
    /\ Len(out) = MaxLoop /\ out[MaxLoop] = Digits[MaxLoop]

\* the program is `int main(){ print_str(<literal>); }`
IsStringProgram ==
    /\ Len(ast) = 1 /\ Len(ast[1].body) = 1
    /\ ast[1].body[1].type = "ExprStmt" /\ ast[1].body[1].expr.type = "Call"
    /\ ast[1].body[1].expr.name = "print_str"

\* C9: the run of `print_str(<literal>)` prints exactly the content the
\* lexer decoded from the literal.
C9_StringRoundTrip ==
    phase = "done" /\ IsStringProgram => out = ast[1].body[1].expr.args[1].value

\* C10, as claimed: a run that ends without error has ended by `jr $ra`
\* with $ra = 0 or by the instruction budget.
C10_TwoTerminalConditions ==
    phase = "done" => ~running \/ iterations >= max_iter

\* C10, amended: a run that ends without error has ended by `jr $ra` with
\* $ra = 0, by the instruction budget, or by pc leaving the instructions;
\* and running is only ever cleared by `jr $ra` with $ra = 0.
C10_ThreeTerminalConditions ==
    /\ phase = "done" => ~running \/ iterations >= max_iter \/ pc >= Len(instructions)
    /\ ~running => /\ GetReg(regs, "$ra") = Zero
                   /\ pc < Len(instructions) /\ CurInst = <<"jr", "$ra">>

\* a run has ended by pc leaving the instructions
C10_Witness ==
    /\ phase = "done" /\ running /\ iterations < max_iter
    /\ iterations > 0 /\ pc >= Len(instructions)

-----------------------------------------------------------------------------
(* The loop of run and the effect of single instructions.                  *)

\* C11: every run stops, with or without an error, and no run executes
\* more than max_iter instructions: each step of a run either ends it
\* (normally, or with an error) or executes one instruction more, the count
\* of the executed instructions never exceeds max_iter, and a run that has
\* used up the budget ends as a normal return, without an error.
C11_RunawayProtection ==
    /\ [](iterations <= max_iter)
    /\ [][phase = "run" =>
            /\ \/ phase' = "run" /\ iterations' = iterations + 1
               \/ phase' = "done" /\ error' = "" /\ iterations' = iterations
               \/ phase' = "fatal" /\ error' # "" /\ iterations' = iterations
            /\ iterations >= max_iter => phase' = "done" /\ error' = ""]_vars

\* `main: j main` has been stopped by the budget
C11_Witness ==
    /\ phase = "done" /\ error = "" /\ running /\ iterations = max_iter
    /\ instructions = << <<"j", "main">> >>

\* a step of the run that has executed the instruction at pc
Executed == phase = "run" /\ phase' = "run" /\ iterations' = iterations + 1

\* the executed instruction is a control transfer that is taken
Taken(inst) ==
    CASE inst[1] = "beq" -> GetReg(regs, inst[2]) = GetReg(regs, inst[3])
      [] inst[1] = "bne" -> GetReg(regs, inst[2]) # GetReg(regs, inst[3])
      [] inst[1] = "j"   -> TRUE
      [] inst[1] = "jal" -> inst[2] \notin {"print_int", "print_str"} /\ inst[2] \in DOMAIN labels
      [] inst[1] = "jr"  -> inst[2] = "$ra" /\ GetReg(regs, "$ra") # Zero
      [] OTHER           -> FALSE

\* the index a taken control transfer goes to
Target(inst) ==
    IF inst[1] = "jr"
    THEN GetReg(regs, "$ra")[1] * Half + GetReg(regs, "$ra")[2]
    ELSE labels[inst[Len(inst)]]

\* `jr $ra` with a zero $ra: the instruction that stops the run
Stops(inst) == inst[1] = "jr" /\ inst[2] = "$ra" /\ GetReg(regs, "$ra") = Zero

\* C12 (as stated): an executed instruction at index p leaves pc = p + 1
\* unless it is a taken control transfer, and then pc is the target's index.
C12_ProgramCounterRule ==
    [][Executed => pc' = IF Taken(CurInst) THEN Target(CurInst) ELSE pc + 1]_vars

\* C12 (amended): as stated, except that `jr $ra` with $ra = 0 stops the run
\* and leaves pc = p.
C12_ProgramCounterRuleWithStop ==
    [][Executed =>
         /\ pc' = IF Taken(CurInst) THEN Target(CurInst)
                  ELSE IF Stops(CurInst) THEN pc ELSE pc + 1
         /\ running' = ~Stops(CurInst)]_vars

\* a subroutine has returned through `jr $ra` to the instruction after its
\* call, and the run went on to its end from there
C12_Witness ==
    /\ phase = "done" /\ Len(instructions) = 11 /\ pc = 11
    /\ instructions[10] = <<"jr", "$ra">> /\ GetReg(regs, "$ra") = <<0, 3>>
    /\ iterations = 9

\* the opcodes execute has a branch for
InstructionSet ==
    {"li", "la", "move", "add", "addi", "sub", "mul", "div", "mflo", "mfhi", "slt", "sltu",
     "and", "andi", "or", "xori", "lw", "sw", "beq", "bne", "j", "jal", "jr", "nop"}

\* the loop of run is about to execute the instruction at pc
AboutToExecute == InLoop /\ pc < Len(instructions)

\* C13: executing an instruction whose opcode is not in the instruction set
\* raises no error, advances pc by exactly one, and leaves the registers,
\* memory, lo/hi and the console output unchanged, whatever its operands.
C13_UnknownOpcodeIsNoOp ==
    [][AboutToExecute /\ CurInst[1] \notin InstructionSet =>
         /\ phase' = "run" /\ error' = error /\ pc' = pc + 1
         /\ UNCHANGED <<regs, memory, lohi, out, running>>]_vars

\* `frob $nope, 1` has been executed: the run is at the instruction after it
C13_Witness ==
    /\ phase = "run" /\ error = "" /\ pc = 7 /\ iterations = 7
    /\ instructions[pc] = <<"frob", "$nope", <<"1">>>>
    /\ GetReg(regs, "$t0") = <<0, 5>>

\* the signed-decimal rendering of a word: 2^31 and above as negative
SignedDecimal(word) ==
    IF word[1] >= 2^15 THEN <<"-">> \o StrNat(BigSub(<<Half, 0>>, word)) ELSE StrNat(word)

\* the number of bytes from addr up to the first zero byte
LengthAt(addr) ==
    CHOOSE n \in 0..Cardinality(DOMAIN memory) :
        /\ MemGet(memory, BigAdd(addr, <<0, n>>)) = 0
        /\ \A i \in 0..(n - 1) : MemGet(memory, BigAdd(addr, <<0, i>>)) # 0

\* the bytes from addr up to but excluding the first zero byte, as characters
BytesAt(addr) == [i \in 1..LengthAt(addr) |-> Chr(MemGet(memory, BigAdd(addr, <<0, i - 1>>)))]

\* C14: `jal print_int` appends exactly the signed-decimal rendering of $a0
\* to the output and `jal print_str` exactly the bytes from address $a0 up
\* to the first zero byte; neither changes a register ($ra included) or
\* memory, neither transfers control (pc advances by one), even when the
\* program defines labels named print_int/print_str.
C14_BuiltinPrint ==
    [][AboutToExecute /\ CurInst[1] = "jal" /\ CurInst[2] \in {"print_int", "print_str"} =>
         /\ out' = out \o (IF CurInst[2] = "print_int"
                           THEN SignedDecimal(GetReg(regs, "$a0"))
                           ELSE BytesAt(GetReg(regs, "$a0")))
         /\ phase' = "run" /\ error' = error /\ pc' = pc + 1
         /\ UNCHANGED <<regs, memory, lohi, running>>]_vars

\* the text that defines labels print_int and print_str has printed -1 and
\* then "hi", and has not run the instructions at those labels
C14_Witness ==
    /\ phase = "done" /\ out = <<"-", "1", "h", "i">>
    /\ "print_int" \in DOMAIN labels /\ "print_str" \in DOMAIN labels
    /\ GetReg(regs, "$t9") = Zero /\ GetReg(regs, "$ra") = <<0, 3>>

\* the register operands of an instruction of the instruction set
RegisterOperands(inst) ==
    CASE inst[1] \in {"li", "la", "mflo", "mfhi", "jr"} -> {inst[2]}
      [] inst[1] \in {"move", "addi", "andi", "xori", "div", "beq", "bne"} -> {inst[2], inst[3]}
      [] inst[1] \in {"add", "sub", "mul", "slt", "sltu", "and", "or"} -> {inst[2], inst[3], inst[4]}
      [] inst[1] \in {"lw", "sw"} -> {inst[2], inst[3][2]}
      [] OTHER -> {}

\* C15: executing an instruction of the instruction set in which some
\* register operand, source or destination, is not one of the 32 names
\* aborts the run with an error and modifies no register and no memory cell.
C15_UnknownRegisterFatal ==
    [][/\ AboutToExecute /\ CurInst[1] \in InstructionSet
       /\ \E name \in RegisterOperands(CurInst) : ~KnownReg(name)
       => phase' = "fatal" /\ error' # "" /\ UNCHANGED <<regs, memory>>]_vars

\* C16: executing a beq, bne, j or jal whose label operand is not in the
\* label table (and is not a builtin print target) aborts the run with an
\* error, whether or not the branch condition holds.
C16_UnresolvedLabelFatal ==
    [][/\ AboutToExecute /\ CurInst[1] \in {"beq", "bne", "j", "jal"}
       /\ CurInst[Len(CurInst)] \notin DOMAIN labels \cup {"print_int", "print_str"}
       => phase' = "fatal" /\ error' # ""]_vars

\* C17: every key of memory is an address in 0 .. 2^32-1 and every stored
\* value is in 0 .. 255.
C17_MemoryMapInvariant ==
    \A addr \in DOMAIN memory :
        /\ addr[1] \in 0..(Half - 1) /\ addr[2] \in 0..(Half - 1)
        /\ memory[addr] \in 0..255

\* (v >> 8i) mod 256 for i = 0..3
ByteOf(v, i) ==
    CASE i = 0 -> v[2] % 256
      [] i = 1 -> v[2] \div 256
      [] i = 2 -> v[1] % 256
      [] i = 3 -> v[1] \div 256

\* the address off(b) of a lw or sw instruction
AddressOf(inst) == BigAdd(GetReg(regs, inst[3][2]), ParseInt(inst[3][1]))

\* the bytes of memory at a, a+1, a+2, a+3 composed least significant first,
\* an unmapped byte counting as zero
WordAt(mem, a) ==
    LET byte(i) == MemGet(mem, BigAdd(a, <<0, i>>))
    IN  <<byte(2) + 256 * byte(3), byte(0) + 256 * byte(1)>>

\* the text is MemoryText(v, w) for the words v and w left in $t0 and $t3
IsMemoryText == \E v, w \in DOMAIN MemoryValues : asm = MemoryText(MemoryValues[v], MemoryValues[w])

\* C18: an executed `sw r, off(b)` leaves the byte (v >> 8i) mod 256 at a+i
\* for i = 0..3 and no other byte changed; an executed `lw` yields the bytes
\* at a..a+3 composed least significant first, unmapped bytes as zeros; so a
\* lw after a sw at the same address yields v, a word never written reads as
\* 0 and a word that overlaps a written one is composed of its bytes.
C18_LittleEndianRoundTrip ==
    /\ [][AboutToExecute /\ Executed /\ CurInst[1] = "sw" =>
            /\ \A i \in 0..3 :
                  MemGet(memory', BigAdd(AddressOf(CurInst), <<0, i>>)) = ByteOf(GetReg(regs, CurInst[2]), i)
            /\ \A a \in DOMAIN memory \ {BigAdd(AddressOf(CurInst), <<0, i>>) : i \in 0..3} :
                  a \in DOMAIN memory' /\ memory'[a] = memory[a]]_vars
    /\ [][AboutToExecute /\ Executed /\ CurInst[1] = "lw" /\ KnownReg(CurInst[2]) /\ CurInst[2] # "$zero" =>
            GetReg(regs', CurInst[2]) = WordAt(memory, AddressOf(CurInst))]_vars
    /\ [](IsMemoryText /\ phase = "done" =>
            LET v == GetReg(regs, "$t0")
                w == GetReg(regs, "$t3")
            IN  /\ GetReg(regs, "$t7") = Zero /\ GetReg(regs, "$t2") = Zero
                /\ GetReg(regs, "$t1") = v
                /\ GetReg(regs, "$t4") = <<w[2], v[2]>>
                /\ GetReg(regs, "$t5") = <<0, w[1]>>
                /\ GetReg(regs, "$s0") = v /\ GetReg(regs, "$s1") = w)

\* 0x12345678 was stored at $sp and 0xAABBCCDD at $sp + 2: the word at $sp
\* reads as 0xCCDD5678 and the one at $sp + 4 as 0x0000AABB
C18_Witness ==
    /\ IsMemoryText /\ phase = "done"
    /\ GetReg(regs, "$t1") = <<4660, 22136>>
    /\ GetReg(regs, "$t4") = <<52445, 22136>> /\ GetReg(regs, "$t5") = <<0, 43707>>
    /\ MemGet(memory, InitialSp) = 120 /\ MemGet(memory, BigAdd(InitialSp, <<0, 1>>)) = 86

-----------------------------------------------------------------------------
(* The parser.                                                             *)

\* the number of tokens PUNCT open minus the number of tokens PUNCT close
\* before the token at index i (from 1)
Depth(i, open, close) ==
    Cardinality({j \in 1..(i - 1) : tokens[j] = Token("PUNCT", open)})
      - Cardinality({j \in 1..(i - 1) : tokens[j] = Token("PUNCT", close)})

\* the tokens are the first tokens of a program and end inside one of its
\* functions: in its header, its body, a statement, an expression or a for
\* header
EndsPrematurely ==
    /\ \E k \in DOMAIN TokenPrograms : \E n \in 1..(Len(TokenPrograms[k]) - 1) :
          tokens = SubSeq(TokenPrograms[k], 1, n)
    /\ ~(tokens[Len(tokens)] = Token("PUNCT", "}") /\ Depth(Len(tokens) + 1, "{", "}") = 0)

\* C19 (the case of a premature end): when the tokens end prematurely,
\* parse ends with the parse error for unexpected end of input and returns
\* no tree.
C19_PrematureEndIsParseError ==
    phase # "parse" /\ EndsPrematurely =>
        phase = "fatal" /\ error = "Unexpected end of input" /\ ast = <<>>

\* the indexes of the tokens that begin a function: the keywords outside
\* every brace and parenthesis
Headers ==
    {i \in 1..Len(tokens) : /\ tokens[i][1] = "KEYWORD"
                            /\ Depth(i, "{", "}") = 0 /\ Depth(i, "(", ")") = 0}

\* the k-th of them in the order of the source
Header(k) == CHOOSE i \in Headers : Cardinality({j \in Headers : j < i}) = k - 1

\* the Function nodes are those of the source, in its order
InSourceOrder(functions) ==
    /\ Len(functions) = Cardinality(Headers)
    /\ \A k \in 1..Len(functions) :
          functions[k].type = "Function" /\ functions[k].name = tokens[Header(k) + 1][2]

\* C20: parse ends on every token sequence, and each completed iteration of
\* its loops has consumed a token of its own (the iterations are no more
\* than the tokens consumed, which are no more than the tokens); when parse
\* returns a Program the position is the number of tokens and the Function
\* nodes are in source order.
C20_ParserProgress ==
    [][phase = "parse" =>
         /\ phase' \in {"gen", "fatal"}
         /\ hist'.loops <= pos_' /\ pos_' <= Len(tokens)
         /\ phase' = "gen" => pos_' = Len(tokens) /\ InSourceOrder(ast')]_vars

\* the two functions of LoopTokens have been parsed, in their order, and
\* compiled and run
C20_Witness ==
    /\ phase = "done" /\ tokens = LoopTokens /\ pos_ = Len(LoopTokens)
    /\ Len(ast) = 2 /\ ast[1].name = "g" /\ ast[2].name = "main"
    /\ hist.loops >= 10


-----------------------------------------------------------------------------
(* The grammar of expressions.                                             *)

\* the step of the parser on the tokens of an expression
ParsesExpression == phase = "parse" /\ hist.tree.type # "None"

\* C21: every expression, written out by the precedences assignment <
\* comparison < additive < multiplicative < prefix < primary < postfix with
\* parentheses only where its shape needs them (right operand of a
\* left-associative operator of the same level, left operand of an
\* assignment, operand of lower precedence), is parsed to the tree it was
\* written from
C21_ExpressionGrammar ==
    [][ParsesExpression => phase' = "gen" /\ ast' = ExpressionProgram(hist.tree)]_vars

\* C21, amended: the same, prefix and postfix ++/-- each taking a primary;
\* an expression with both on one operand is rejected
C21_ExpressionGrammarUnaryOnPrimary ==
    [][ParsesExpression =>
          IF \E e \in CombinedExpressions : hist.tree = e
          THEN phase' = "fatal" /\ error' = "Expected PUNCT, got OP"
          ELSE phase' = "gen" /\ ast' = ExpressionProgram(hist.tree)]_vars

\* a - 2 * ++c < d-- has been parsed as (a - (2 * (++c))) < (d--)
C21_Witness ==
    /\ hist.tree.type # "None"
    /\ phase # "parse"
    /\ ast # <<>>
    /\ ast[1].body[7].expr \in
          {BinOp("<", BinOp("-", Var("a"), BinOp("*", Number(Big(2)), PreOp("++", Var("c")))),
                 PostOp("--", Var("d")))}
    /\ hist.tree = ast[1].body[7].expr

-----------------------------------------------------------------------------
(* The lexer.                                                              *)

\* reading a source text character by character: in "code", after a "slash"
\* in code, in a "comment" (from // to the end of the line), in a "string"
\* (from a quote to the next quote that no backslash precedes) or after the
\* backslash of an "escape" in a string
ModeNext(mode, c) ==
    CASE mode = "code"    -> (IF c = "\"" THEN "string" ELSE IF c = "/" THEN "slash" ELSE "code")
      [] mode = "slash"   -> (IF c = "\"" THEN "string" ELSE IF c = "/" THEN "comment" ELSE "code")
      [] mode = "comment" -> (IF c = "\n" THEN "code" ELSE "comment")
      [] mode = "string"  -> (IF c = "\"" THEN "code" ELSE IF c = "\\" THEN "escape" ELSE "string")
      [] mode = "escape"  -> "string"

\* the mode after the characters lo..hi of text, read from mode on
RECURSIVE ModeAfter(_, _, _, _)
ModeAfter(text, lo, hi, mode) ==
    IF lo > hi THEN mode
    ELSE IF lo = hi THEN ModeNext(mode, text[lo])
    ELSE Only({ModeAfter(text, (lo + hi) \div 2 + 1, hi, half) :
                  half \in {ModeAfter(text, lo, (lo + hi) \div 2, mode)}})

\* the mode after the first n characters of text
ModeAt(text, n) == ModeAfter(text, 1, n, "code")

\* the source ends inside a string literal
EndsInString(text) == ModeAt(text, Len(text)) \in {"string", "escape"}

\* the text with whitespace and // comments removed: what is left are the
\* characters of the string literals and the others that are not whitespace
Removed(text) ==
    LET index == [i \in 1..Len(text) |-> i]
        Kept(i) ==
            LET before == ModeAt(text, i - 1)
                after  == ModeNext(before, text[i])
            IN  IF before \in {"string", "escape"} \/ after = "string" THEN TRUE
                ELSE IF \/ before = "comment" \/ after = "comment"
                        \/ after = "slash" /\ i < Len(text) /\ text[i + 1] = "/"
                THEN FALSE
                ELSE ~IsSpace(text[i])
        kept  == SelectSeq(index, Kept)
    IN  [k \in 1..Len(kept) |-> text[kept[k]]]

\* C22: when the source ends inside a string literal, tokenize ends in an
\* error of its own and hands no tokens on
C22_UnterminatedStringIsLexicalError ==
    [][phase = "lex" /\ EndsInString(code_) => phase' = "fatal" /\ error' # ""]_vars

\* the substrings of the source the tokens from the k-th on were read from
RECURSIVE Concatenated(_)
Concatenated(k) ==
    IF k > Len(hist.spans) THEN <<>>
    ELSE Slice(hist.spans[k][1], hist.spans[k][2]) \o Concatenated(k + 1)

\* C23: once tokenize has returned, the substrings its tokens were read
\* from, in order, make up the source without its whitespace and comments,
\* and no two operator characters that stand side by side and form a
\* two-character operator are two tokens
C23_LexerCoverage ==
    phase # "lex" =>
        /\ Concatenated(1) = Removed(code_)
        /\ \A k \in 1..(Len(hist.spans) - 1) :
              (/\ hist.spans[k][2] = hist.spans[k + 1][1]
               /\ tokens[k][1] = "OP" /\ tokens[k + 1][1] = "OP"
               /\ hist.spans[k][2] - hist.spans[k][1] = 1
               /\ hist.spans[k + 1][2] - hist.spans[k + 1][1] = 1)
              => Slice(hist.spans[k][1], hist.spans[k + 1][2])
                    \notin {<<"=", "=">>, <<"!", "=">>, <<"<", "=">>, <<">", "=">>,
                            <<"+", "+">>, <<"-", "-">>}

-----------------------------------------------------------------------------
(* Expressions and the frame of locals.                                    *)

\* the value of an arithmetic expression over a and b, modulo 2^32
RECURSIVE Value(_)
Value(e) ==
    CASE e.type = "Number" -> Mask32(e.value)
      [] e.type = "Var" -> NumberToken(IF e.name = "a" THEN ValueOfA ELSE ValueOfB, 1)
      [] e.type = "BinOp" ->
            (CASE e.op = "+" -> Mask32(BigAdd(Value(e.left), Value(e.right)))
               [] e.op = "-" -> Mask32(BigSub(Value(e.left), Value(e.right)))
               [] e.op = "*" -> MulMask(Value(e.left), Value(e.right)))

\* the word of the local variable name: at its recorded offset from $fp
SlotOf(name) == BigAdd(GetReg(regs, "$fp"), Big(vars_[name]))

\* the run of `return <e>;` has evaluated e and is about to move its value
AfterExpression ==
    /\ AboutToExecute
    /\ hist.tree.type # "None"
    /\ CurInst = ReturnValue

\* C24: when the code of an expression over numbers, the variables a and b
\* and +, -, * has run, $t0 is the value of the expression modulo 2^32, $sp
\* is where it was before the expression (below the two declarations that
\* have run) and the slots of a and b hold what they held
C24_BinaryExpressionValue ==
    AfterExpression =>
        /\ GetReg(regs, "$t0") = Value(hist.tree)
        /\ GetReg(regs, "$sp") = BigSub(GetReg(regs, "$fp"), Big(8))
        /\ ReadMem(memory, SlotOf("a")) = NumberToken(ValueOfA, 1)
        /\ ReadMem(memory, SlotOf("b")) = NumberToken(ValueOfB, 1)

\* the spill of the left operand of a BinOp
Spill == <<"sw", "$t0", <<<<"0">>, "$sp">>>>

\* C27: in a run of generated code, a local variable is read and written
\* inside the frame ($sp <= address < $fp), and a spill never writes the
\* slot of a variable that has been read or written before
C27_FrameSafety ==
    (AboutToExecute /\ ast # <<>>) =>
        /\ AccessesLocal(CurInst) =>
              LET address == BigAdd(GetReg(regs, "$fp"), ParseInt(CurInst[3][1]))
              IN  /\ ~BigLt(address, GetReg(regs, "$sp"))
                  /\ BigLt(address, GetReg(regs, "$fp"))
        /\ CurInst = Spill =>
              \A offset \in hist.slots :
                 GetReg(regs, "$sp") # BigAdd(GetReg(regs, "$fp"), offset)


-----------------------------------------------------------------------------
(* Division.                                                               *)

\* the word is negative when read as a signed 32-bit integer
Negative(word) == word[1] >= 2^15

\* the absolute value of a word read as a signed 32-bit integer
Magnitude(word) == IF Negative(word) THEN BigSub(<<Half, 0>>, word) ELSE word

\* the word of -m
Negated(m) == Mask32(BigSub(Zero, m))

\* the quotient and remainder of a by b as signed 32-bit integers, as words:
\* the quotient rounded towards zero (the remainder takes the sign of a) and
\* the quotient rounded down (the remainder takes the sign of b)
SignedDivisions(a, b) ==
    LET m     == DivMod(Magnitude(a), Magnitude(b))
        mixed == Negative(a) # Negative(b)
        trunc == << IF mixed THEN Negated(m[1]) ELSE m[1],
                    IF Negative(a) THEN Negated(m[2]) ELSE m[2] >>
        under == BigSub(Magnitude(b), m[2])
        floor == IF mixed /\ m[2] # Zero
                 THEN << Negated(BigAdd(m[1], <<0, 1>>)),
                         IF Negative(b) THEN Negated(under) ELSE under >>
                 ELSE trunc
    IN  {trunc, floor}

\* the next iteration executes `div rs, rt` with a non-zero value of rt
Divides ==
    /\ AboutToExecute /\ CurInst[1] = "div"
    /\ KnownReg(CurInst[2]) /\ KnownReg(CurInst[3])
    /\ GetReg(regs, CurInst[3]) # Zero

\* the next iteration executes mflo (part 1) or mfhi (part 2) into a
\* register other than $zero, after a div
Fetches(op, part) ==
    /\ AboutToExecute /\ CurInst[1] = op /\ lohi # <<>>
    /\ KnownReg(CurInst[2]) /\ CurInst[2] # "$zero"
    /\ GetReg(regs', CurInst[2]) = Mask32(lohi[part])

\* C26: `div a, b` with b # 0 leaves in lo and hi the quotient and the
\* remainder of a by b read as signed 32-bit integers and changes none of
\* the 32 general registers; mflo and mfhi deliver lo and hi of the most
\* recent div.
C26_SignedDivision ==
    [][/\ Divides =>
            /\ regs' = regs
            /\ <<Mask32(lohi'[1]), Mask32(lohi'[2])>>
                   \in SignedDivisions(GetReg(regs, CurInst[2]), GetReg(regs, CurInst[3]))
       /\ \A op \in {"mflo", "mfhi"} :
            (AboutToExecute /\ CurInst[1] = op /\ lohi # <<>>
                /\ KnownReg(CurInst[2]) /\ CurInst[2] # "$zero") =>
                    Fetches(op, IF op = "mflo" THEN 1 ELSE 2)]_vars


-----------------------------------------------------------------------------
(* The addresses of strings.                                               *)

\* the address `la` gives to a data-section label
Materialized(label) == BigAdd(StringBase, <<0, Len(label)>>)

\* the addresses of the bytes `la` writes for a label: content and final zero
RangeOf(label) == {BigAdd(Materialized(label), <<0, i>>) : i \in 0..Len(data_strings[label])}

\* the bytes at the address of the label spell its content
Spells(mem, label) == LoadString(mem, Materialized(label)) = data_strings[label]

\* the program is `int s = "..."; int t = "..."; print_str(s); return 0;`
IsTwoStringsProgram ==
    /\ Len(ast) = 1 /\ Len(ast[1].body) = 4
    /\ ast[1].body[1].type = "Declaration" /\ ast[1].body[1].init.type = "String"
    /\ ast[1].body[2].type = "Declaration" /\ ast[1].body[2].init.type = "String"

\* C28: the byte ranges `la` materializes for two distinct data-section
\* labels do not overlap; `la` of one label leaves the bytes at the address
\* of every other label spelling that label's content; and the run of
\* `int s = A; int t = B; print_str(s);` prints the content of A.
C28_StringAddressesDisjoint ==
    /\ [](phase \in {"loaded", "run", "done"} =>
             \A a \in DOMAIN data_strings, b \in DOMAIN data_strings :
                a # b => RangeOf(a) \cap RangeOf(b) = {})
    /\ [][(AboutToExecute /\ CurInst[1] = "la" /\ CurInst[3] \in DOMAIN data_strings) =>
             \A a \in DOMAIN data_strings \ {CurInst[3]} :
                Spells(memory, a) => Spells(memory', a)]_vars
    /\ [](phase = "done" /\ IsTwoStringsProgram => out = ast[1].body[1].init.value)


-----------------------------------------------------------------------------
(* The instructions and labels of a loaded text.                           *)

\* the instruction a line of the text section carries, <<>> if it carries
\* none: a blank line, a comment, a directive and a bare label carry none;
\* a trailing comment is no part of the instruction
Carried(line) ==
    CASE LineKind(line) = "TEXT" ->
            LET text == Strip(BeforeComment(line[2]))
                n    == SpanWord(text, 1)
            IN  IF text = <<>> THEN <<>>
                ELSE IF n >= 1 /\ n + 1 <= Len(text) /\ text[n + 1] = ":"
                THEN Strip(SubSeq(text, n + 2, Len(text)))
                ELSE IF Head(text) = "." THEN <<>>
                ELSE text
      [] LineKind(line) = "LABEL" -> IF Len(line) > 2 THEN line[3] ELSE <<>>
      [] SectionLine(line) \/ line = <<>> -> <<>>
      [] OTHER -> line

\* the label a line of the text section defines, "" if it defines none
Defined(line) ==
    CASE LineKind(line) = "TEXT" ->
            LET text == Strip(BeforeComment(line[2]))
                n    == SpanWord(text, 1)
            IN  IF n >= 1 /\ n + 1 <= Len(text) /\ text[n + 1] = ":"
                THEN Join(SubSeq(text, 1, n)) ELSE ""
      [] LineKind(line) = "LABEL" -> line[2]
      [] OTHER -> ""

\* an entry of the instruction array without its trailing comment
Uncommented(entry) ==
    IF LineKind(entry) = "TEXT" THEN Strip(BeforeComment(entry[2])) ELSE entry

\* C25: after load_program the instruction array holds, in textual order,
\* exactly one entry for every line of the text section that carries an
\* instruction, an instruction after a label on its line and an instruction
\* with a trailing comment of any content included; and every label defined
\* once maps to the number of instructions carried by the lines before it.
C25_ProgramLoading ==
    phase = "loaded" =>
        LET lines   == SplitLines(asm)
            index   == [i \in 1..Len(lines) |-> i]
            Carries(i) == InText(lines, i) /\ Carried(lines[i]) # <<>>
            Defines(i) == InText(lines, i) /\ Defined(lines[i]) # ""
            at      == SelectSeq(index, Carries)
        IN  /\ Len(instructions) = Len(at)
            /\ \A k \in 1..Len(at) : Uncommented(instructions[k]) = Carried(lines[at[k]])
            /\ \A i \in 1..Len(lines) :
                  (/\ Defines(i)
                   /\ \A j \in 1..Len(lines) :
                         Defines(j) /\ Defined(lines[j]) = Defined(lines[i]) => j = i) =>
                      /\ Defined(lines[i]) \in DOMAIN labels
                      /\ labels[Defined(lines[i])] = Cardinality({k \in 1..Len(at) : at[k] < i})

====
